---- MODULE Spec2Model ----
(***************************************************************************)
(* Substrack: the subscriptions REST handlers (GET / POST / PUT / DELETE   *)
(* over the "subscriptions" table) and the status policy they enforce.    *)
(*                                                                         *)
(* Text is a sequence of one-character strings, so that trim, lower-casing *)
(* and number parsing are computed the way the JavaScript built-ins        *)
(* compute them.  A JSON value is a tagged record (JUndef, JNull, JNum,    *)
(* JStr).  Costs are whole numbers: the inputs used here carry no decimal  *)
(* point.                                                                  *)
(***************************************************************************)
EXTENDS Integers, Sequences, FiniteSets, TLC

VARIABLES
  store,   \* the subscriptions table: id -> row
  nextId,  \* the next AUTOINCREMENT value
  now,     \* the wall clock
  resp,    \* the response to the last request
  call,    \* a call of a status-policy function: its name and arguments
  ret      \* what the call returned: <<>> until it returns, then <<value>>

vars == <<store, nextId, now, resp, call, ret>>

----------------------------------------------------------------------------
(* Bounds of the model *)

\* rows ever inserted (AUTOINCREMENT values handed out)
MaxId == 2
\* readings of the wall clock: 0 .. MaxClock
MaxClock == 1

----------------------------------------------------------------------------
(* JSON values as they arrive in a request body *)

JUndef == [t |-> "undefined"]
JNull == [t |-> "null"]
JNum(n) == [t |-> "number", n |-> n]
JStr(s) == [t |-> "string", s |-> s]

IsStr(v) == v.t = "string"

\* JavaScript truthiness of a JSON value
Truthy(v) ==
  CASE v.t = "undefined" -> FALSE
    [] v.t = "null" -> FALSE
    [] v.t = "number" -> v.n # 0
    [] v.t = "string" -> v.s # <<>>

----------------------------------------------------------------------------
(* String built-ins *)

Digits == <<"0", "1", "2", "3", "4", "5", "6", "7", "8", "9">>
UpperCase == <<"A", "B", "C", "D", "E", "F", "G", "H", "I", "J", "K", "L", "M",
               "N", "O", "P", "Q", "R", "S", "T", "U", "V", "W", "X", "Y", "Z">>
LowerCase == <<"a", "b", "c", "d", "e", "f", "g", "h", "i", "j", "k", "l", "m",
               "n", "o", "p", "q", "r", "s", "t", "u", "v", "w", "x", "y", "z">>

IsSpace(c) == c = " "

IsDigit(c) == \E i \in 1..10 : Digits[i] = c

DigitVal(c) == (CHOOSE i \in 1..10 : Digits[i] = c) - 1

\* String.prototype.toLowerCase, one character
LowerChar(c) ==
  IF \E i \in 1..26 : UpperCase[i] = c
  THEN LowerCase[CHOOSE i \in 1..26 : UpperCase[i] = c]
  ELSE c

ToLowerCase(s) == [i \in 1..Len(s) |-> LowerChar(s[i])]

RECURSIVE TrimStart(_)
TrimStart(s) ==
  IF s # <<>> /\ IsSpace(Head(s)) THEN TrimStart(Tail(s)) ELSE s

RECURSIVE TrimEnd(_)
TrimEnd(s) ==
  IF s # <<>> /\ IsSpace(s[Len(s)]) THEN TrimEnd(SubSeq(s, 1, Len(s) - 1)) ELSE s

\* String.prototype.trim
Trim(s) == TrimEnd(TrimStart(s))

\* the longest prefix of s made of decimal digits, as a number; acc is the
\* value read so far
RECURSIVE DigitsPrefix(_, _)
DigitsPrefix(s, acc) ==
  IF s # <<>> /\ IsDigit(Head(s))
  THEN DigitsPrefix(Tail(s), 10 * acc + DigitVal(Head(s)))
  ELSE acc

NaN == [nan |-> TRUE, n |-> 0]
Num(n) == [nan |-> FALSE, n |-> n]

\* parseInt(string): leading white space is skipped, an optional sign is
\* read, then the longest run of digits; whatever follows is ignored.  NaN
\* when no digit is read.
ParseInt(s) ==
  LET t == TrimStart(s)
      neg == t # <<>> /\ Head(t) = "-"
      u == IF t # <<>> /\ Head(t) \in {"-", "+"} THEN Tail(t) ELSE t
  IN IF u = <<>> \/ ~IsDigit(Head(u)) THEN NaN
     ELSE Num(IF neg THEN 0 - DigitsPrefix(u, 0) ELSE DigitsPrefix(u, 0))

\* parseFloat(value): the argument is converted to a string first, so a
\* number parses to itself, and null / undefined ("null", "undefined") to NaN
ParseFloat(v) ==
  CASE v.t = "number" -> Num(v.n)
    [] v.t = "string" -> ParseInt(v.s)
    [] OTHER -> NaN

----------------------------------------------------------------------------
(* constants/subscription-statuses.ts *)

active == <<"a", "c", "t", "i", "v", "e">>
paused == <<"p", "a", "u", "s", "e", "d">>
cancelled == <<"c", "a", "n", "c", "e", "l", "l", "e", "d">>
trial == <<"t", "r", "i", "a", "l">>
expired == <<"e", "x", "p", "i", "r", "e", "d">>

SUBSCRIPTION_STATUS_VALUES == <<active, paused, cancelled, trial, expired>>

CHARGEABLE_SUBSCRIPTION_STATUSES == <<active, trial>>

\* Array.prototype.includes
Includes(seq, x) == \E i \in 1..Len(seq) : seq[i] = x

\* the own keys of the transition table
HasTransitions(current) == Includes(SUBSCRIPTION_STATUS_VALUES, current)

\* a faulty table: a paused subscription may be resumed
TransitionsWithResume(current) ==
  CASE current = trial -> <<active, cancelled>>
    [] current = active -> <<paused, cancelled, expired>>
    [] current = paused -> <<active, cancelled, expired>>
    [] current = cancelled -> <<expired>>
    [] current = expired -> <<cancelled>>

\* SUBSCRIPTION_STATUS_TRANSITIONS[current], for a key of the table
SUBSCRIPTION_STATUS_TRANSITIONS(current) ==
  CASE current = trial -> <<active, cancelled>>
    [] current = active -> <<paused, cancelled, expired>>
    [] current = paused -> <<cancelled, expired>>
    [] current = cancelled -> <<expired>>
    [] current = expired -> <<cancelled>>

SUBSCRIPTION_STATUS_LABELS(value) ==
  CASE value = active -> "Active"
    [] value = paused -> "Paused"
    [] value = cancelled -> "Cancelled"
    [] value = trial -> "Trial"
    [] value = expired -> "Expired"

\* a faulty canTransitionSubscriptionStatus: any status may follow any other
canTransitionAnyValid(current, next) ==
  Includes(SUBSCRIPTION_STATUS_VALUES, next)

canTransitionSubscriptionStatus(current, next) ==
  \/ current = next
  \/ /\ HasTransitions(current)
     /\ Includes(SUBSCRIPTION_STATUS_TRANSITIONS(current), next)

\* a faulty getPermittedStatusOptions: the current status is not offered
getPermittedWithoutCurrent(current) ==
  IF current = <<>> THEN SUBSCRIPTION_STATUS_VALUES
  ELSE IF HasTransitions(current) THEN SUBSCRIPTION_STATUS_TRANSITIONS(current)
  ELSE <<>>

getPermittedStatusOptions(current) ==
  IF current = <<>> THEN SUBSCRIPTION_STATUS_VALUES
  ELSE <<current>> \o (IF HasTransitions(current)
                       THEN SUBSCRIPTION_STATUS_TRANSITIONS(current)
                       ELSE <<>>)

isValidSubscriptionStatus(value) == Includes(SUBSCRIPTION_STATUS_VALUES, value)

----------------------------------------------------------------------------
(* api/subscriptions route: helpers *)

\* a faulty normalizeStatus: the text is tidied but never looked up
normalizeStatusUnvalidated(value) == JStr(ToLowerCase(Trim(value)))

\* normalizeStatus: the status in lower case, or null
normalizeStatus(value) ==
  LET normalized == ToLowerCase(Trim(value))
  IN IF isValidSubscriptionStatus(normalized) THEN JStr(normalized) ELSE JNull

monthly == <<"m", "o", "n", "t", "h", "l", "y">>
yearly == <<"y", "e", "a", "r", "l", "y">>
quarterly == <<"q", "u", "a", "r", "t", "e", "r", "l", "y">>

validBillingCycles == <<monthly, yearly, quarterly>>

\* a non-empty run of decimal digits
AllDigits(s) == s # <<>> /\ \A i \in 1..Len(s) : IsDigit(s[i])

\* new Date(string) for the date form YYYY-MM-DD: getTime() is NaN unless the
\* text has that form with a month 1..12 and a day 1..31 (a day past the end
\* of a shorter month is read as a day of the next month)
DateIsValid(s) ==
  /\ Len(s) = 10
  /\ s[5] = "-" /\ s[8] = "-"
  /\ AllDigits(SubSeq(s, 1, 4)) /\ AllDigits(SubSeq(s, 6, 7))
  /\ AllDigits(SubSeq(s, 9, 10))
  /\ DigitsPrefix(SubSeq(s, 6, 7), 0) \in 1..12
  /\ DigitsPrefix(SubSeq(s, 9, 10), 0) \in 1..31

----------------------------------------------------------------------------
(* The subscriptions table (db/index.ts, drizzle migration) *)

\* a request body: the seven fields the handlers destructure
Body(name, cost, billingCycle, nextPaymentDate, category, description, status) ==
  [name |-> name, cost |-> cost, billingCycle |-> billingCycle,
   nextPaymentDate |-> nextPaymentDate, category |-> category,
   description |-> description, status |-> status]

\* a database: the rows by id, and the next AUTOINCREMENT value
Db(rows, seq) == [rows |-> rows, seq |-> seq]

\* db.select().from(subscriptions).where(eq(id, n)).limit(1)
SelectById(db, n) ==
  IF n \in DOMAIN db.rows THEN <<db.rows[n]>> ELSE <<>>

\* a faulty insert: the id is the largest id in the table plus one (a rowid
\* without AUTOINCREMENT), so the id of a deleted last row is handed out again
InsertReusingId(db, data) ==
  LET id == IF DOMAIN db.rows = {} THEN 1
            ELSE 1 + CHOOSE m \in DOMAIN db.rows : \A k \in DOMAIN db.rows : k <= m
      row == [id |-> id] @@ data
  IN [db |-> Db((id :> row) @@ db.rows, db.seq + 1), row |-> row]

\* db.insert(subscriptions).values(data).returning(): "id" INTEGER PRIMARY KEY
\* AUTOINCREMENT takes the next value never used before
Insert(db, data) ==
  LET row == [id |-> db.seq] @@ data
  IN [db |-> Db((db.seq :> row) @@ db.rows, db.seq + 1), row |-> row]

\* a faulty update: the where clause is left out, so every row is set
UpdateEveryRow(db, n, updates) ==
  IF n \in DOMAIN db.rows
  THEN [db |-> Db([k \in DOMAIN db.rows |-> updates @@ db.rows[k]], db.seq),
        returning |-> <<updates @@ db.rows[n]>>]
  ELSE [db |-> db, returning |-> <<>>]

\* db.update(subscriptions).set(updates).where(eq(id, n)).returning():
\* updates maps column names to their new values
Update(db, n, updates) ==
  IF n \in DOMAIN db.rows
  THEN LET row == updates @@ db.rows[n]
       IN [db |-> Db([db.rows EXCEPT ![n] = row], db.seq), returning |-> <<row>>]
  ELSE [db |-> db, returning |-> <<>>]

\* a faulty delete: the where clause is left out, so every row goes
DeleteEveryRow(db, n) ==
  IF n \in DOMAIN db.rows
  THEN [db |-> Db(<<>>, db.seq), returning |-> <<db.rows[n]>>]
  ELSE [db |-> db, returning |-> <<>>]

\* db.delete(subscriptions).where(eq(id, n)).returning()
Delete(db, n) ==
  IF n \in DOMAIN db.rows
  THEN [db |-> Db([k \in DOMAIN db.rows \ {n} |-> db.rows[k]], db.seq),
        returning |-> <<db.rows[n]>>]
  ELSE [db |-> db, returning |-> <<>>]

----------------------------------------------------------------------------
(* Responses *)

\* NextResponse.json(body, {status}): rows carries the record(s) of a success,
\* allowed the labels that the message of a refused status change lists
Response(op, status, code, rows) ==
  [op |-> op, status |-> status, code |-> code, rows |-> rows, allowed |-> <<>>]

\* an error response {error, code}
Error(op, status, code) == Response(op, status, code, <<>>)

\* the catch block: {error: 'Internal server error: ...'} with status 500; the
\* body of this response has no "code" member
InternalError(op) == Response(op, 500, "(none)", <<>>)

\* a handler's outcome: the database it leaves and the response it returns
Outcome(db, response) == [db |-> db, resp |-> response]

----------------------------------------------------------------------------
(* api/subscriptions route: POST *)

\* !v || v.trim() === '' , for a v on which trim can be called
Missing(v) == ~Truthy(v) \/ (IsStr(v) /\ Trim(v.s) = <<>>)

\* v.trim() on a truthy value that is no string: a TypeError
TrimThrows(v) == Truthy(v) /\ ~IsStr(v)

\* new Date(v).getTime() is NaN; null and numbers convert to a valid instant
DateIsNaN(v) ==
  CASE v.t = "string" -> ~DateIsValid(v.s)
    [] v.t = "undefined" -> TRUE
    [] OTHER -> FALSE

\* a faulty cost check: zero is let through
CostRejectedUnlessNegative(v) == ParseFloat(v).nan \/ ParseFloat(v).n < 0

\* isNaN(costValue) || costValue <= 0
CostRejected(v) == ParseFloat(v).nan \/ ParseFloat(v).n <= 0

\* the first check of POST that fails: an error code, "throw" for a TypeError
\* raised on the way, or "ok"
PostCheck(body) ==
  IF TrimThrows(body.name) THEN "throw"
  ELSE IF Missing(body.name) THEN "MISSING_NAME"
  ELSE IF body.cost.t \in {"undefined", "null"} THEN "MISSING_COST"
  ELSE IF TrimThrows(body.billingCycle) THEN "throw"
  ELSE IF Missing(body.billingCycle) THEN "MISSING_BILLING_CYCLE"
  ELSE IF TrimThrows(body.nextPaymentDate) THEN "throw"
  ELSE IF Missing(body.nextPaymentDate) THEN "MISSING_NEXT_PAYMENT_DATE"
  ELSE IF CostRejected(body.cost) THEN "INVALID_COST"
  ELSE IF ~Includes(validBillingCycles, body.billingCycle.s)
    THEN "INVALID_BILLING_CYCLE"
  ELSE IF DateIsNaN(body.nextPaymentDate) THEN "INVALID_NEXT_PAYMENT_DATE"
  ELSE IF body.status.t \notin {"undefined", "null", "string"}
    THEN "INVALID_STATUS"
  ELSE IF IsStr(body.status) /\ normalizeStatus(body.status.s) = JNull
    THEN "INVALID_STATUS"
  ELSE IF TrimThrows(body.description) THEN "throw"
  ELSE "ok"

\* a faulty insertData: the status of the body is ignored
InsertDataAlwaysActive(body, t) ==
  [name |-> Trim(body.name.s),
   cost |-> ParseFloat(body.cost).n,
   billingCycle |-> Trim(body.billingCycle.s),
   nextPaymentDate |-> Trim(body.nextPaymentDate.s),
   category |-> IF IsStr(body.category) /\ Trim(body.category.s) # <<>>
                THEN JStr(Trim(body.category.s)) ELSE JNull,
   description |-> IF Truthy(body.description)
                   THEN JStr(Trim(body.description.s)) ELSE JNull,
   status |-> active,
   createdAt |-> t,
   updatedAt |-> t]

\* insertData for a body that passed PostCheck, stamped with the time t
InsertData(body, t) ==
  [name |-> Trim(body.name.s),
   cost |-> ParseFloat(body.cost).n,
   billingCycle |-> Trim(body.billingCycle.s),
   nextPaymentDate |-> Trim(body.nextPaymentDate.s),
   category |-> IF IsStr(body.category) /\ Trim(body.category.s) # <<>>
                THEN JStr(Trim(body.category.s)) ELSE JNull,
   description |-> IF Truthy(body.description)
                   THEN JStr(Trim(body.description.s)) ELSE JNull,
   status |-> IF IsStr(body.status) THEN normalizeStatus(body.status.s).s ELSE active,
   createdAt |-> t,
   updatedAt |-> t]

\* POST: create a subscription.  fault names the storage call that fails in
\* this request: "none", "select" or "write".
PostOutcome(db, body, t, fault) ==
  LET check == PostCheck(body)
  IN IF check = "throw" THEN Outcome(db, InternalError("POST"))
     ELSE IF check # "ok" THEN Outcome(db, Error("POST", 400, check))
     ELSE IF fault = "write" THEN Outcome(db, InternalError("POST"))
     ELSE LET ins == Insert(db, InsertData(body, t))
          IN Outcome(ins.db, Response("POST", 201, "ok", <<ins.row>>))

----------------------------------------------------------------------------
(* api/subscriptions route: PUT *)

\* !id || isNaN(parseInt(id)) for the "id" query parameter (null when absent)
IdRejected(id) == ~Truthy(id) \/ ParseInt(id.s).nan

\* One field of the update: err is "ok", an error code or "throw"; when set,
\* updates[column] becomes val.
Step(err, set, val) == [err |-> err, set |-> set, val |-> val]

Skip == Step("ok", FALSE, JNull)

PutName(name) ==
  IF name.t = "undefined" THEN Skip
  ELSE IF ~IsStr(name) THEN Step("throw", FALSE, JNull)
  ELSE IF Trim(name.s) = <<>> THEN Step("INVALID_NAME", FALSE, JNull)
  ELSE Step("ok", TRUE, Trim(name.s))

PutCost(cost) ==
  IF cost.t = "undefined" THEN Skip
  ELSE IF CostRejected(cost) THEN Step("INVALID_COST", FALSE, JNull)
  ELSE Step("ok", TRUE, ParseFloat(cost).n)

PutBillingCycle(billingCycle) ==
  IF billingCycle.t = "undefined" THEN Skip
  ELSE IF ~(IsStr(billingCycle) /\ Includes(validBillingCycles, billingCycle.s))
    THEN Step("INVALID_BILLING_CYCLE", FALSE, JNull)
  ELSE Step("ok", TRUE, Trim(billingCycle.s))

PutNextPaymentDate(nextPaymentDate) ==
  IF nextPaymentDate.t = "undefined" THEN Skip
  ELSE IF DateIsNaN(nextPaymentDate)
    THEN Step("INVALID_NEXT_PAYMENT_DATE", FALSE, JNull)
  ELSE IF ~IsStr(nextPaymentDate) THEN Step("throw", FALSE, JNull)
  ELSE Step("ok", TRUE, Trim(nextPaymentDate.s))

PutCategory(category) ==
  IF category.t = "undefined" THEN Skip
  ELSE IF category.t = "null" THEN Step("ok", TRUE, JNull)
  ELSE IF ~IsStr(category) THEN Step("throw", FALSE, JNull)
  ELSE IF Trim(category.s) # <<>> THEN Step("ok", TRUE, JStr(Trim(category.s)))
  ELSE Step("ok", TRUE, JNull)

PutDescription(description) ==
  IF description.t = "undefined" THEN Skip
  ELSE IF ~Truthy(description) THEN Step("ok", TRUE, JNull)
  ELSE IF ~IsStr(description) THEN Step("throw", FALSE, JNull)
  ELSE Step("ok", TRUE, JStr(Trim(description.s)))

\* a faulty status step: the transition check is left out
PutStatusUnchecked(status, currentStatus) ==
  IF status.t = "undefined" THEN Skip
  ELSE IF ~IsStr(status) THEN Step("INVALID_STATUS", FALSE, JNull)
  ELSE IF normalizeStatus(status.s) = JNull THEN Step("INVALID_STATUS", FALSE, JNull)
  ELSE Step("ok", TRUE, normalizeStatus(status.s).s)

\* a faulty allowedLabelText: the current status is not filtered out
allowedLabelTextWithCurrent(currentStatus) ==
  LET allowedStatuses == getPermittedStatusOptions(currentStatus)
  IN [i \in 1..Len(allowedStatuses) |-> SUBSCRIPTION_STATUS_LABELS(allowedStatuses[i])]

\* allowedLabelText: the labels that join(', ') strings together, and the
\* label of the current status when there is none
allowedLabelText(currentStatus) ==
  LET allowedStatuses == getPermittedStatusOptions(currentStatus)
      others == SelectSeq(allowedStatuses, LAMBDA value : value # currentStatus)
      allowedTransitionLabels ==
        [i \in 1..Len(others) |-> SUBSCRIPTION_STATUS_LABELS(others[i])]
  IN IF allowedTransitionLabels # <<>> THEN allowedTransitionLabels
     ELSE <<SUBSCRIPTION_STATUS_LABELS(currentStatus)>>

\* currentStatus is existing[0].status
PutStatus(status, currentStatus) ==
  IF status.t = "undefined" THEN Skip
  ELSE IF ~IsStr(status) THEN Step("INVALID_STATUS", FALSE, JNull)
  ELSE IF normalizeStatus(status.s) = JNull THEN Step("INVALID_STATUS", FALSE, JNull)
  ELSE IF ~canTransitionSubscriptionStatus(currentStatus, normalizeStatus(status.s).s)
    THEN Step("INVALID_STATUS_TRANSITION", FALSE, allowedLabelText(currentStatus))
  ELSE Step("ok", TRUE, normalizeStatus(status.s).s)

Columns ==
  <<"name", "cost", "billingCycle", "nextPaymentDate", "category",
    "description", "status">>

\* the steps of PUT in the order the handler takes them
PutSteps(body, existing) ==
  <<PutName(body.name), PutCost(body.cost), PutBillingCycle(body.billingCycle),
    PutNextPaymentDate(body.nextPaymentDate), PutCategory(body.category),
    PutDescription(body.description), PutStatus(body.status, existing.status)>>

\* the first step that fails, 0 when none does
FirstFailure(steps) ==
  IF \A i \in 1..Len(steps) : steps[i].err = "ok" THEN 0
  ELSE CHOOSE i \in 1..Len(steps) :
         /\ steps[i].err # "ok"
         /\ \A j \in 1..(i - 1) : steps[j].err = "ok"

\* the updates object: updatedAt, and the column of every step that set one
Updates(steps, t) ==
  LET set == {i \in 1..Len(steps) : steps[i].set}
  IN [c \in {"updatedAt"} \cup {Columns[i] : i \in set} |->
        IF c = "updatedAt" THEN t
        ELSE steps[CHOOSE i \in set : Columns[i] = c].val]

\* the 400 response of a step that failed
StepError(step) ==
  IF step.err = "INVALID_STATUS_TRANSITION"
  THEN [Error("PUT", 400, step.err) EXCEPT !.allowed = step.val]
  ELSE Error("PUT", 400, step.err)

\* a faulty PUT: the fields that pass are written before a later field is
\* refused
PutOutcomeWritingValidFields(db, id, body, t, fault) ==
  IF IdRejected(id) THEN Outcome(db, Error("PUT", 400, "INVALID_ID"))
  ELSE IF fault = "select" THEN Outcome(db, InternalError("PUT"))
  ELSE LET existing == SelectById(db, ParseInt(id.s).n)
       IN IF Len(existing) = 0 THEN Outcome(db, Error("PUT", 404, "NOT_FOUND"))
          ELSE LET steps == PutSteps(body, existing[1])
                   bad == FirstFailure(steps)
                   passed == IF bad = 0 THEN steps ELSE SubSeq(steps, 1, bad - 1)
                   upd == Update(db, ParseInt(id.s).n, Updates(passed, t))
               IN IF fault = "write" THEN Outcome(db, InternalError("PUT"))
                  ELSE IF bad # 0 /\ steps[bad].err = "throw"
                    THEN Outcome(upd.db, InternalError("PUT"))
                  ELSE IF bad # 0
                    THEN Outcome(upd.db, StepError(steps[bad]))
                  ELSE Outcome(upd.db, Response("PUT", 200, "ok", upd.returning))

\* PUT ?id=...: update a subscription
PutOutcome(db, id, body, t, fault) ==
  IF IdRejected(id) THEN Outcome(db, Error("PUT", 400, "INVALID_ID"))
  ELSE IF fault = "select" THEN Outcome(db, InternalError("PUT"))
  ELSE LET existing == SelectById(db, ParseInt(id.s).n)
       IN IF Len(existing) = 0 THEN Outcome(db, Error("PUT", 404, "NOT_FOUND"))
          ELSE LET steps == PutSteps(body, existing[1])
                   bad == FirstFailure(steps)
               IN IF bad # 0 /\ steps[bad].err = "throw"
                    THEN Outcome(db, InternalError("PUT"))
                  ELSE IF bad # 0
                    THEN Outcome(db, StepError(steps[bad]))
                  ELSE IF fault = "write" THEN Outcome(db, InternalError("PUT"))
                  ELSE LET upd == Update(db, ParseInt(id.s).n, Updates(steps, t))
                       IN Outcome(upd.db, Response("PUT", 200, "ok", upd.returning))

----------------------------------------------------------------------------
(* api/subscriptions route: DELETE and GET *)

\* DELETE ?id=...: remove a subscription and return the removed row
DeleteOutcome(db, id, fault) ==
  IF IdRejected(id) THEN Outcome(db, Error("DELETE", 400, "INVALID_ID"))
  ELSE IF fault = "select" THEN Outcome(db, InternalError("DELETE"))
  ELSE IF Len(SelectById(db, ParseInt(id.s).n)) = 0
    THEN Outcome(db, Error("DELETE", 404, "NOT_FOUND"))
  ELSE IF fault = "write" THEN Outcome(db, InternalError("DELETE"))
  ELSE LET del == Delete(db, ParseInt(id.s).n)
       IN Outcome(del.db, Response("DELETE", 200, "ok", del.returning))

\* the rows as the table scan returns them: in rowid order
RECURSIVE RowsFrom(_, _)
RowsFrom(db, n) ==
  IF n >= db.seq THEN <<>>
  ELSE SelectById(db, n) \o RowsFrom(db, n + 1)

\* Math.min(parseInt(limit || '50'), 100) and parseInt(offset || '0') when the
\* request names neither
DefaultLimit == 50
MaxLimit == 100
DefaultOffset == 0

\* query.limit(limit).offset(offset)
LimitOffset(rows, limit, offset) ==
  SubSeq(rows, offset + 1, IF Len(rows) < offset + limit THEN Len(rows) ELSE offset + limit)

\* the query parameters of a list request, each a string or null
Query(limit, offset, search, status, category, billingCycle) ==
  [limit |-> limit, offset |-> offset, search |-> search, status |-> status,
   category |-> category, billingCycle |-> billingCycle]

NoQuery == Query(JNull, JNull, JNull, JNull, JNull, JNull)

\* Math.min(parseInt(searchParams.get('limit') || '50'), 100): NaN stays NaN
LimitOf(query) ==
  LET parsed == IF Truthy(query.limit) THEN ParseInt(query.limit.s) ELSE Num(DefaultLimit)
  IN IF parsed.nan THEN NaN
     ELSE IF parsed.n < MaxLimit THEN parsed ELSE Num(MaxLimit)

\* parseInt(searchParams.get('offset') || '0')
OffsetOf(query) ==
  IF Truthy(query.offset) THEN ParseInt(query.offset.s) ELSE Num(DefaultOffset)

\* hay LIKE '%' || needle || '%', for a needle without % and _: the needle
\* occurs in the hay, letter case aside
Like(hay, needle) ==
  \E i \in 1..(Len(hay) - Len(needle) + 1) :
    ToLowerCase(SubSeq(hay, i, i + Len(needle) - 1)) = ToLowerCase(needle)

\* and(...conditions) for a row; status is the normalised status filter
Matches(row, query, status) ==
  /\ Truthy(query.search) =>
       \/ Like(row.name, query.search.s)
       \/ IsStr(row.description) /\ Like(row.description.s, query.search.s)
  /\ Truthy(query.status) => row.status = status
  /\ Truthy(query.category) => row.category = query.category
  /\ Truthy(query.billingCycle) => row.billingCycle = query.billingCycle.s

\* whether the query builder writes the "limit" clause.  Releases of the
\* builder differ: older ones write it for a truthy limit (neither 0 nor
\* NaN), newer ones for a number >= 0.
HasLimit(limit, builder) ==
  IF builder = "truthy" THEN ~limit.nan /\ limit.n # 0
  ELSE ~limit.nan /\ limit.n >= 0

\* the "offset" clause is written for a truthy offset
HasOffset(offset) == ~offset.nan /\ offset.n # 0

\* SQLite: LIMIT n OFFSET m; a negative limit is no limit and a negative
\* offset is no offset
Paginate(rows, limit, offset, builder) ==
  LET skip == IF HasOffset(offset) /\ offset.n > 0 THEN offset.n ELSE 0
      take == IF HasLimit(limit, builder) /\ limit.n >= 0 THEN limit.n ELSE Len(rows)
  IN LimitOffset(rows, take, skip)

\* GET without id: the list.  builder names the release of the query builder.
ListOutcome(db, query, builder, fault) ==
  IF Truthy(query.status) /\ normalizeStatus(query.status.s) = JNull
  THEN Outcome(db, Error("GET", 400, "INVALID_STATUS"))
  ELSE IF fault = "select" THEN Outcome(db, InternalError("GET"))
  ELSE IF HasOffset(OffsetOf(query)) /\ ~HasLimit(LimitOf(query), builder)
    THEN Outcome(db, InternalError("GET"))
  ELSE LET status == IF Truthy(query.status)
                     THEN normalizeStatus(query.status.s).s ELSE <<>>
           rows == SelectSeq(RowsFrom(db, 1), LAMBDA row : Matches(row, query, status))
       IN Outcome(db, Response("GET", 200, "ok",
                               Paginate(rows, LimitOf(query), OffsetOf(query), builder)))

\* GET ?id=...: one subscription; GET with no id (null or ""): the list
GetOutcome(db, id, fault) ==
  IF Truthy(id)
  THEN IF IdRejected(id) THEN Outcome(db, Error("GET", 400, "INVALID_ID"))
       ELSE IF fault = "select" THEN Outcome(db, InternalError("GET"))
       ELSE IF Len(SelectById(db, ParseInt(id.s).n)) = 0
         THEN Outcome(db, Error("GET", 404, "NOT_FOUND"))
       ELSE Outcome(db, Response("GET", 200, "ok", SelectById(db, ParseInt(id.s).n)))
  ELSE ListOutcome(db, NoQuery, "truthy", fault)

----------------------------------------------------------------------------
(* JavaScript numbers: IEEE 754 binary64, for the values >= 0 the costs and
   their sums take.  A number is m * 2^e, its significand m a sequence of
   Precision bits, the first of them 1; zero has no bits. *)

Precision == 53

Float(m, e) == [m |-> m, e |-> e]

Zero == Float(<<>>, 0)

\* k zero bits
Zeros(k) == [i \in 1..k |-> 0]

RECURSIVE StripZeros(_)
StripZeros(b) ==
  IF b # <<>> /\ Head(b) = 0 THEN StripZeros(Tail(b)) ELSE b

\* the bits of a natural number, the first of them 1
RECURSIVE NatBits(_)
NatBits(n) == IF n = 0 THEN <<>> ELSE NatBits(n \div 2) \o <<n % 2>>

\* Sums, products and quotients are worked out on digits of 8 bits.
Byte == 256

Weights == <<128, 64, 32, 16, 8, 4, 2, 1>>

\* the digits of a bit sequence, which is first extended on the left to a
\* whole number of digits
Pack(bits) ==
  LET n == (Len(bits) + 7) \div 8
      b == Zeros(8 * n - Len(bits)) \o bits
  IN [i \in 1..n |->
        b[8 * i - 7] * 128 + b[8 * i - 6] * 64 + b[8 * i - 5] * 32
        + b[8 * i - 4] * 16 + b[8 * i - 3] * 8 + b[8 * i - 2] * 4
        + b[8 * i - 1] * 2 + b[8 * i]]

\* the bits of a digit sequence
Unpack(digits) ==
  [j \in 1..(8 * Len(digits)) |->
     (digits[(j + 7) \div 8] \div Weights[((j - 1) % 8) + 1]) % 2]

\* a + b for digit sequences of one length, from the last digit to the first
RECURSIVE AddStep(_, _, _, _, _)
AddStep(a, b, i, carry, acc) ==
  IF i = 0 THEN <<carry>> \o acc
  ELSE IF a[i] + b[i] + carry < Byte
    THEN AddStep(a, b, i - 1, 0, <<a[i] + b[i] + carry>> \o acc)
  ELSE AddStep(a, b, i - 1, 1, <<a[i] + b[i] + carry - Byte>> \o acc)

\* a + b for bit sequences; the sum has no leading zero
AddBits(a, b) ==
  LET n == IF Len(a) > Len(b) THEN Len(a) ELSE Len(b)
      x == Pack(Zeros(n - Len(a)) \o a)
      y == Pack(Zeros(n - Len(b)) \o b)
  IN StripZeros(Unpack(AddStep(x, y, Len(x), 0, <<>>)))

\* b * k for a digit sequence b and a small k
RECURSIVE MulStep(_, _, _, _, _)
MulStep(b, k, i, carry, acc) ==
  IF i = 0 THEN <<carry>> \o acc
  ELSE IF b[i] * k + carry < Byte
    THEN MulStep(b, k, i - 1, 0, <<b[i] * k + carry>> \o acc)
  ELSE MulStep(b, k, i - 1, (b[i] * k + carry) \div Byte,
               <<(b[i] * k + carry) % Byte>> \o acc)

\* b * k for a bit sequence b and a whole k in 0..255; no leading zero
MulBits(b, k) == StripZeros(Unpack(MulStep(Pack(b), k, Len(Pack(b)), 0, <<>>)))

\* b divided by a small d, digit by digit: the quotient q and the remainder r
RECURSIVE DivStep(_, _, _, _, _)
DivStep(b, d, i, r, q) ==
  IF i > Len(b) THEN [q |-> q, r |-> r]
  ELSE IF r * Byte + b[i] < d
    THEN DivStep(b, d, i + 1, r * Byte + b[i], Append(q, 0))
  ELSE DivStep(b, d, i + 1, (r * Byte + b[i]) % d,
               Append(q, (r * Byte + b[i]) \div d))

\* b divided by a whole d in 1..4095, for a bit sequence b: the quotient q,
\* without leading zero, and the remainder r
DivBits(b, d) ==
  LET s == DivStep(Pack(b), d, 1, 0, <<>>)
  IN [q |-> StripZeros(Unpack(s.q)), r |-> s.r]

\* The number nearest to (bits + f) * 2^e, ties to the even significand:
\* bits has no leading zero, and inexact says that 0 < f < 1 (only for bits
\* longer than Precision + 1).
RoundToNearest(bits, inexact, e) ==
  LET len == Len(bits)
  IN IF len = 0 THEN Zero
     ELSE IF len <= Precision
       THEN Float(bits \o Zeros(Precision - len), e - (Precision - len))
     ELSE LET kept == SubSeq(bits, 1, Precision)
              half == bits[Precision + 1] = 1
              more == inexact \/ \E i \in (Precision + 2)..len : bits[i] = 1
              m == IF half /\ (more \/ kept[Precision] = 1)
                   THEN AddBits(kept, <<1>>) ELSE kept
          IN IF Len(m) > Precision
             THEN Float(SubSeq(m, 1, Precision), e + (len - Precision) + 1)
             ELSE Float(m, e + (len - Precision))

\* the number a decimal literal a/b denotes, for whole a >= 0 and b > 0 below
\* 2^12: a * 2^70 is divided by b and the quotient rounded
FromRatio(a, b) ==
  LET d == DivBits(NatBits(a) \o Zeros(70), b)
  IN RoundToNearest(d.q, d.r # 0, 0 - 70)

\* x / d for a whole d in 1..15
Divide(x, d) ==
  LET q == DivBits(x.m \o Zeros(8), d)
  IN RoundToNearest(q.q, q.r # 0, x.e - 8)

\* x * k for a whole k >= 0
Multiply(x, k) == RoundToNearest(MulBits(x.m, k), FALSE, x.e)

\* x + y
Plus(x, y) ==
  IF x = Zero THEN y
  ELSE IF y = Zero THEN x
  ELSE LET e == IF x.e < y.e THEN x.e ELSE y.e
       IN RoundToNearest(AddBits(x.m \o Zeros(x.e - e), y.m \o Zeros(y.e - e)),
                         FALSE, e)

\* a bit sequence is below another of the same length
BitsBelow(a, b) ==
  \E i \in 1..Len(a) :
    a[i] < b[i] /\ \A j \in 1..(i - 1) : a[j] = b[j]

\* x < y
Less(x, y) ==
  IF y = Zero THEN FALSE
  ELSE IF x = Zero THEN TRUE
  ELSE x.e < y.e \/ (x.e = y.e /\ BitsBelow(x.m, y.m))

----------------------------------------------------------------------------
(* Dates: an instant is a whole number of hours since 2024-01-01T00:00Z *)

Day == 24

\* the leap years before the year y
LeapsBefore(y) == ((y - 1) \div 4) - ((y - 1) \div 100) + ((y - 1) \div 400)

IsLeap(y) == (y % 4 = 0 /\ y % 100 # 0) \/ y % 400 = 0

\* the days of the year before the month m
DaysBeforeMonth(y, m) ==
  <<0, 31, 59, 90, 120, 151, 181, 212, 243, 273, 304, 334>>[m]
  + (IF m > 2 /\ IsLeap(y) THEN 1 ELSE 0)

\* the days from 2024-01-01 to the day d of the month m of the year y
DayNumber(y, m, d) ==
  365 * (y - 2024) + (LeapsBefore(y) - LeapsBefore(2024))
  + DaysBeforeMonth(y, m) + (d - 1)

\* new Date(dateString).getTime() for a valid text YYYY-MM-DD: midnight UTC
\* of that date
DateValue(s) ==
  Day * DayNumber(DigitsPrefix(SubSeq(s, 1, 4), 0),
                  DigitsPrefix(SubSeq(s, 6, 7), 0),
                  DigitsPrefix(SubSeq(s, 9, 10), 0))

\* date.setHours(0, 0, 0, 0): midnight of the local day of the instant t, in
\* a time zone zone hours ahead of UTC (no daylight saving change)
SetHoursZero(t, zone) == ((t + zone) \div Day) * Day - zone

\* Math.ceil(a / b) for b > 0
Ceil(a, b) == 0 - ((0 - a) \div b)

----------------------------------------------------------------------------
(* components/DashboardStats.tsx.  A subscription of the page is a row as
   the list request returned it, its cost a number. *)

\* a faulty filter: paused subscriptions pass as well
chargeableOrPaused(subscriptions) ==
  SelectSeq(subscriptions,
            LAMBDA sub : Includes(CHARGEABLE_SUBSCRIPTION_STATUSES, sub.status)
                         \/ sub.status = paused)

chargeableSubscriptions(subscriptions) ==
  SelectSeq(subscriptions,
            LAMBDA sub : Includes(CHARGEABLE_SUBSCRIPTION_STATUSES, sub.status))

\* the reducer of calculateMonthlyTotal
MonthlyStep(total, sub) ==
  IF sub.billingCycle = monthly THEN Plus(total, sub.cost)
  ELSE IF sub.billingCycle = yearly THEN Plus(total, Divide(sub.cost, 12))
  ELSE IF sub.billingCycle = quarterly THEN Plus(total, Divide(sub.cost, 3))
  ELSE total

\* a faulty reducer: a quarterly cost is counted three times a year
YearlyStepThreeQuarters(total, sub) ==
  IF sub.billingCycle = monthly THEN Plus(total, Multiply(sub.cost, 12))
  ELSE IF sub.billingCycle = yearly THEN Plus(total, sub.cost)
  ELSE IF sub.billingCycle = quarterly THEN Plus(total, Multiply(sub.cost, 3))
  ELSE total

\* the reducer of calculateYearlyTotal
YearlyStep(total, sub) ==
  IF sub.billingCycle = monthly THEN Plus(total, Multiply(sub.cost, 12))
  ELSE IF sub.billingCycle = yearly THEN Plus(total, sub.cost)
  ELSE IF sub.billingCycle = quarterly THEN Plus(total, Multiply(sub.cost, 4))
  ELSE total

\* subs.reduce(step, total) from the element i on; which names the reducer
RECURSIVE Reduce(_, _, _, _)
Reduce(which, subs, i, total) ==
  IF i > Len(subs) THEN total
  ELSE IF which = "monthly"
    THEN Reduce(which, subs, i + 1, MonthlyStep(total, subs[i]))
  ELSE Reduce(which, subs, i + 1, YearlyStep(total, subs[i]))

calculateMonthlyTotal(subscriptions) ==
  Reduce("monthly", chargeableSubscriptions(subscriptions), 1, Zero)

calculateYearlyTotal(subscriptions) ==
  Reduce("yearly", chargeableSubscriptions(subscriptions), 1, Zero)

\* today is new Date(), the instant of the call
getUpcomingPayments(subscriptions, today) ==
  Len(SelectSeq(chargeableSubscriptions(subscriptions),
                LAMBDA sub :
                  /\ DateValue(sub.nextPaymentDate) >= today
                  /\ DateValue(sub.nextPaymentDate) <= today + 7 * Day))

DashboardStats(subscriptions, today) ==
  [monthlyTotal |-> calculateMonthlyTotal(subscriptions),
   yearlyTotal |-> calculateYearlyTotal(subscriptions),
   upcomingPayments |-> getUpcomingPayments(subscriptions, today)]

----------------------------------------------------------------------------
(* components/ExpenseChart.tsx *)

activeSubscriptions(subscriptions) ==
  SelectSeq(subscriptions, LAMBDA sub : sub.status = active)

convertToMonthly(cost, cycle) ==
  IF cycle = monthly THEN cost
  ELSE IF cycle = yearly THEN Divide(cost, 12)
  ELSE IF cycle = quarterly THEN Divide(cost, 3)
  ELSE cost

other == <<"o", "t", "h", "e", "r">>

\* sub.category || "other"
CategoryOf(sub) == IF Truthy(sub.category) THEN sub.category.s ELSE other

\* acc[category] after the reduce has passed the elements from i on
RECURSIVE CategoryTotal(_, _, _, _)
CategoryTotal(subs, category, i, total) ==
  IF i > Len(subs) THEN total
  ELSE IF CategoryOf(subs[i]) = category
    THEN CategoryTotal(subs, category, i + 1,
                       Plus(total, convertToMonthly(subs[i].cost, subs[i].billingCycle)))
  ELSE CategoryTotal(subs, category, i + 1, total)

\* the category breakdown: monthly cost by category
categoryData(subscriptions) ==
  LET subs == activeSubscriptions(subscriptions)
  IN [category \in {CategoryOf(subs[i]) : i \in 1..Len(subs)} |->
        CategoryTotal(subs, category, 1, Zero)]

\* the comparator of the sort puts a before b: costB - costA < 0
CostlierFirst(a, b) ==
  Less(convertToMonthly(b.cost, b.billingCycle),
       convertToMonthly(a.cost, a.billingCycle))

\* sub goes behind every element of the sorted sequence that the comparator
\* does not put after it
RECURSIVE InsertByCost(_, _)
InsertByCost(sorted, sub) ==
  IF sorted = <<>> THEN <<sub>>
  ELSE IF CostlierFirst(sub, Head(sorted)) THEN <<sub>> \o sorted
  ELSE <<Head(sorted)>> \o InsertByCost(Tail(sorted), sub)

\* Array.prototype.sort is stable
RECURSIVE SortByCost(_, _, _)
SortByCost(subs, i, sorted) ==
  IF i > Len(subs) THEN sorted
  ELSE SortByCost(subs, i + 1, InsertByCost(sorted, subs[i]))

TopCount == 10

\* array.slice(0, n)
Slice(array, n) == SubSeq(array, 1, IF Len(array) < n THEN Len(array) ELSE n)

sortedSubscriptions(subscriptions) ==
  Slice(SortByCost(activeSubscriptions(subscriptions), 1, <<>>), TopCount)

ExpenseChart(subscriptions) ==
  [categoryData |-> categoryData(subscriptions),
   sortedSubscriptions |-> sortedSubscriptions(subscriptions)]

----------------------------------------------------------------------------
(* components/UpcomingReminders.tsx *)

getDaysUntilPayment(dateString, today, zone) ==
  Ceil(SetHoursZero(DateValue(dateString), zone) - SetHoursZero(today, zone), Day)

RECURSIVE InsertByDate(_, _)
InsertByDate(sorted, sub) ==
  IF sorted = <<>> THEN <<sub>>
  ELSE IF DateValue(sub.nextPaymentDate) < DateValue(Head(sorted).nextPaymentDate)
    THEN <<sub>> \o sorted
  ELSE <<Head(sorted)>> \o InsertByDate(Tail(sorted), sub)

RECURSIVE SortByDate(_, _, _)
SortByDate(subs, i, sorted) ==
  IF i > Len(subs) THEN sorted
  ELSE SortByDate(subs, i + 1, InsertByDate(sorted, subs[i]))

overduePayments(subscriptions, today, zone) ==
  SortByDate(SelectSeq(activeSubscriptions(subscriptions),
                       LAMBDA sub :
                         getDaysUntilPayment(sub.nextPaymentDate, today, zone) < 0),
             1, <<>>)

upcomingPayments(subscriptions, today, zone) ==
  SortByDate(SelectSeq(activeSubscriptions(subscriptions),
                       LAMBDA sub :
                         /\ getDaysUntilPayment(sub.nextPaymentDate, today, zone) >= 0
                         /\ getDaysUntilPayment(sub.nextPaymentDate, today, zone) <= 30),
             1, <<>>)

\* isDueSoon of an upcoming payment
isDueSoon(sub, today, zone) ==
  getDaysUntilPayment(sub.nextPaymentDate, today, zone) <= 7

UpcomingReminders(subscriptions, today, zone) ==
  [overduePayments |-> overduePayments(subscriptions, today, zone),
   upcomingPayments |-> upcomingPayments(subscriptions, today, zone),
   dueSoon |-> SelectSeq(upcomingPayments(subscriptions, today, zone),
                         LAMBDA sub : isDueSoon(sub, today, zone))]

----------------------------------------------------------------------------
(* Requests the clients send *)

\* String(n) for a whole n >= 0
RECURSIVE NumberToString(_)
NumberToString(n) ==
  IF n < 10 THEN <<Digits[n + 1]>>
  ELSE NumberToString(n \div 10) \o <<Digits[(n % 10) + 1]>>

\* the query `?id=${subscription.id}` of the clients
IdQuery(n) == JStr(NumberToString(n))

Absent == Body(JUndef, JUndef, JUndef, JUndef, JUndef, JUndef, JUndef)

jan05 == <<"2", "0", "2", "4", "-", "0", "1", "-", "0", "5">>
month13 == <<"2", "0", "2", "4", "-", "1", "3", "-", "0", "5">>

\* a well-formed create request; its status is left out
Netflix ==
  Body(JStr(<<" ", "N", " ">>), JNum(7), JStr(monthly), JStr(jan05),
       JStr(<<"t", "v">>), JStr(<<"h", "d", " ">>), JUndef)

\* status texts: the five statuses, two of them padded or in upper case, and
\* two that are no status
StatusTexts ==
  {active, paused, trial, <<" ">> \o cancelled,
   <<"E", "X", "P", "I", "R", "E", "D">>, <<"b", "o", "g", "u", "s">>, <<>>}

StatusInputs == {JStr(s) : s \in StatusTexts} \cup {JNull, JNum(1)}

\* the statuses creations ask for: every one but paused, which a row only
\* gets by an update
CreateStatusInputs == StatusInputs \ {JStr(paused)}

CostInputs ==
  {JNum(0), JNum(0 - 5), JStr(<<"7", "a">>), JStr(<<"x">>), JNull}

\* the "id" query parameter: null when the request carries none
IdInputs ==
  {JNull} \cup
  {JStr(s) : s \in {<<"1">>, <<"2">>, <<"3">>, <<"0">>, <<"-", "1">>, <<"1", "a">>,
                    <<" ", "2">>, <<"a", "1">>, <<>>}}

StoredIds == {JStr(<<"1">>), JStr(<<"2">>)}

Faults == {"none", "select", "write"}

CreateBodies ==
  {[Netflix EXCEPT !.status = v] : v \in CreateStatusInputs}
  \cup {[Netflix EXCEPT !.cost = v] : v \in CostInputs \cup {JUndef}}
  \cup {[Netflix EXCEPT !.name = v] : v \in {JUndef, JStr(<<" ">>), JNum(3)}}
  \cup {[Netflix EXCEPT !.billingCycle = v] :
          v \in {JUndef, JStr(<<"w", "e", "e", "k", "l", "y">>)}}
  \cup {[Netflix EXCEPT !.nextPaymentDate = v] : v \in {JUndef, JStr(month13)}}
  \cup {[Netflix EXCEPT !.description = v] : v \in {JNum(3)}}

UpdateBodies ==
  {[Absent EXCEPT !.status = v] : v \in StatusInputs}
  \cup {[Absent EXCEPT !.cost = v] : v \in CostInputs}
  \cup {[Absent EXCEPT !.status = JStr(expired), !.cost = JNum(0)]}
  \cup {[Absent EXCEPT !.name = v] : v \in {JStr(<<" ">>), JNull}}
  \cup {Absent}

\* the requests sent: every body to the stored ids, one body to every id
\* text, and a storage fault now and then
CreateRequests ==
  (CreateBodies \X {"none"}) \cup ({Netflix} \X Faults)

UpdateRequests ==
  (StoredIds \X UpdateBodies \X {"none"})
  \cup (IdInputs \X {[Absent EXCEPT !.status = JStr(cancelled)]} \X {"none"})
  \cup ({JStr(<<"1">>)} \X {[Absent EXCEPT !.status = JStr(expired)]} \X Faults)

DeleteRequests == (IdInputs \X {"none"}) \cup ({JStr(<<"1">>)} \X Faults)

GetRequests == (IdInputs \X {"none"}) \cup ({JStr(<<"1">>), JNull} \X Faults)

\* the requests sent while the clock runs: creations with the default
\* status, updates of one or two fields, and no deletion
ClockCreateRequests ==
  {<<Netflix, "none">>, <<[Netflix EXCEPT !.cost = JNum(0)], "none">>}

ClockUpdateBodies ==
  {Absent,
   [Absent EXCEPT !.category = JNull],
   [Absent EXCEPT !.category = JStr(<<" ", "t", "v">>)],
   [Absent EXCEPT !.status = JStr(cancelled)],
   [Absent EXCEPT !.status = JStr(active), !.category = JStr(<<" ">>)],
   [Absent EXCEPT !.cost = JNum(0), !.category = JNull],
   [Absent EXCEPT !.name = JStr(<<"N">>), !.status = JStr(paused), !.cost = JNum(7)]}

ClockUpdateRequests ==
  (StoredIds \X ClockUpdateBodies \X {"none"})
  \cup ({JStr(<<"1">>)} \X {[Absent EXCEPT !.category = JNull]} \X Faults)
  \cup ({JStr(<<"3">>), JStr(<<"x">>)} \X {Absent} \X {"none"})

----------------------------------------------------------------------------
(* The system: one request is handled at a time *)

NoCall == [fn |-> "none"]

InitStore ==
  /\ store = <<>>
  /\ nextId = 1
  /\ now = 0
  /\ resp = Response("none", 0, "(none)", <<>>)

Init ==
  /\ InitStore
  /\ call = NoCall
  /\ ret = <<>>

POST(body, fault) ==
  LET o == PostOutcome(Db(store, nextId), body, now, fault)
  IN /\ o.resp.status = 201 => nextId <= MaxId
     /\ store' = o.db.rows
     /\ nextId' = o.db.seq
     /\ resp' = o.resp
     /\ UNCHANGED <<now, call, ret>>

PUT(id, body, fault) ==
  LET o == PutOutcome(Db(store, nextId), id, body, now, fault)
  IN /\ store' = o.db.rows
     /\ resp' = o.resp
     /\ UNCHANGED <<nextId, now, call, ret>>

DELETE(id, fault) ==
  LET o == DeleteOutcome(Db(store, nextId), id, fault)
  IN /\ store' = o.db.rows
     /\ resp' = o.resp
     /\ UNCHANGED <<nextId, now, call, ret>>

GET(id, fault) ==
  LET o == GetOutcome(Db(store, nextId), id, fault)
  IN /\ store' = o.db.rows
     /\ resp' = o.resp
     /\ UNCHANGED <<nextId, now, call, ret>>

\* time passes between requests
Tick ==
  /\ now < MaxClock
  /\ now' = now + 1
  /\ UNCHANGED <<store, nextId, resp, call, ret>>

\* the status lifecycle: every request kind, every status, within one
\* reading of the clock
Next ==
  \/ \E r \in CreateRequests : POST(r[1], r[2])
  \/ \E r \in UpdateRequests : PUT(r[1], r[2], r[3])
  \/ \E r \in DeleteRequests : DELETE(r[1], r[2])
  \/ \E r \in GetRequests : GET(r[1], r[2])

Spec == Init /\ [][Next]_vars

\* creations and updates as time passes
NextClock ==
  \/ \E r \in ClockCreateRequests : POST(r[1], r[2])
  \/ \E r \in ClockUpdateRequests : PUT(r[1], r[2], r[3])
  \/ Tick

SpecClock == Init /\ [][NextClock]_vars

----------------------------------------------------------------------------
(* The status policy called on its own *)

\* what the callers pass: the five statuses and three texts that are none
PolicyArguments ==
  {active, paused, cancelled, trial, expired,
   <<"A", "c", "t", "i", "v", "e">>, <<"b", "o", "g", "u", "s">>, <<>>}

\* what isValidSubscriptionStatus is asked about: these, and a status in
\* upper case and a padded one
ValidityArguments ==
  PolicyArguments \cup {<<"A", "C", "T", "I", "V", "E">>, <<" ">> \o paused}

InitPolicy ==
  /\ InitStore
  /\ call \in {[fn |-> "canTransition", current |-> c, next |-> n] :
                 c \in PolicyArguments, n \in PolicyArguments}
            \cup {[fn |-> "getPermitted", current |-> c] : c \in PolicyArguments}
            \cup {[fn |-> "isValid", value |-> v] : v \in ValidityArguments}
  /\ ret = <<>>

CallCanTransition ==
  /\ call.fn = "canTransition"
  /\ ret = <<>>
  /\ ret' = <<canTransitionSubscriptionStatus(call.current, call.next)>>
  /\ UNCHANGED <<store, nextId, now, resp, call>>

CallGetPermittedStatusOptions ==
  /\ call.fn = "getPermitted"
  /\ ret = <<>>
  /\ ret' = <<getPermittedStatusOptions(call.current)>>
  /\ UNCHANGED <<store, nextId, now, resp, call>>

CallIsValidSubscriptionStatus ==
  /\ call.fn = "isValid"
  /\ ret = <<>>
  /\ ret' = <<isValidSubscriptionStatus(call.value)>>
  /\ UNCHANGED <<store, nextId, now, resp, call>>

NextPolicy ==
  \/ CallCanTransition
  \/ CallGetPermittedStatusOptions
  \/ CallIsValidSubscriptionStatus

SpecPolicy == InitPolicy /\ [][NextPolicy]_vars

----------------------------------------------------------------------------
(* The dashboard: the page hands one list of subscriptions to its three
   components, which render one after the other *)

MaxSubscriptions == 2

Subscription(id, cost, billingCycle, nextPaymentDate, category, status) ==
  [id |-> id, cost |-> cost, billingCycle |-> billingCycle,
   nextPaymentDate |-> nextPaymentDate, category |-> category,
   status |-> status]

dec30 == <<"2", "0", "2", "3", "-", "1", "2", "-", "3", "0">>
jan01 == <<"2", "0", "2", "4", "-", "0", "1", "-", "0", "1">>
jan08 == <<"2", "0", "2", "4", "-", "0", "1", "-", "0", "8">>
jan10 == <<"2", "0", "2", "4", "-", "0", "1", "-", "1", "0">>
jan12 == <<"2", "0", "2", "4", "-", "0", "1", "-", "1", "2">>
feb15 == <<"2", "0", "2", "4", "-", "0", "2", "-", "1", "5">>

PaymentDates == {dec30, jan01, jan05, jan08, jan10, jan12, feb15}

music == <<"m", "u", "s", "i", "c">>

MaxCents == 50

\* costs in hundredths: 0.01 to 0.50, 9.99, 15.99, 120.00
CostsInCents == 1..MaxCents \cup {999, 1599, 12000}

\* lists of one subscription: every cost in every cycle, and every status on
\* every payment date
OneSubscription ==
  {Subscription(1, FromRatio(c, 100), b, jan05, JNull, active) :
     c \in CostsInCents, b \in {monthly, quarterly, yearly}}
  \cup {Subscription(1, FromRatio(1599, 100), monthly, d, JStr(music), s) :
          d \in PaymentDates,
          s \in {active, paused, cancelled, trial, expired}}

\* the subscriptions the longer lists are made of
SomeSubscriptions ==
  {Subscription(1, FromRatio(1599, 100), monthly, jan05, JStr(music), active),
   Subscription(2, FromRatio(12000, 100), monthly, jan10, JStr(music), trial),
   Subscription(3, FromRatio(12000, 100), yearly, dec30, JNull, paused),
   Subscription(4, FromRatio(21, 100), yearly, jan01, JNull, active),
   Subscription(5, FromRatio(1599, 100), monthly, dec30, JStr(other), active),
   Subscription(6, FromRatio(999, 100), quarterly, feb15, JStr(music), expired)}

\* more subscriptions than the chart shows: n active ones costing 1, 2, ..., n
\* a month, behind a trial that costs more than any of them
ManySubscriptions(n) ==
  <<Subscription(n + 1, FromRatio(12000, 100), monthly, jan10, JNull, trial)>>
  \o [i \in 1..n |-> Subscription(i, FromRatio(i, 1), monthly, jan05, JNull, active)]

SubscriptionLists ==
  UNION {[1..n -> SomeSubscriptions] : n \in 0..MaxSubscriptions}
  \cup {<<sub>> : sub \in OneSubscription}
  \cup {ManySubscriptions(TopCount + 1), Tail(ManySubscriptions(TopCount + 1))}

\* when and where the page renders: at midnight UTC of 2024-01-01 in a
\* browser on UTC, and at 15:00 UTC of 2024-01-05 in browsers on UTC, five
\* hours behind it and two hours ahead of it
Renderings ==
  {[today |-> 0, zone |-> 0],
   [today |-> 4 * Day + 15, zone |-> 0],
   [today |-> 4 * Day + 15, zone |-> 0 - 5],
   [today |-> 4 * Day + 15, zone |-> 2]}

\* a stored row as the page receives it from the list request
PageSubscription(row) ==
  Subscription(row.id, FromRatio(row.cost, 1), row.billingCycle,
               row.nextPaymentDate, row.category, row.status)

InitDashboard ==
  /\ InitStore
  /\ call \in {[fn |-> "page", subscriptions |-> subs, today |-> r.today,
                zone |-> r.zone] :
                 subs \in SubscriptionLists, r \in Renderings}
  /\ ret = <<>>

RenderDashboardStats ==
  /\ call.fn = "page"
  /\ Len(ret) = 0
  /\ ret' = <<DashboardStats(call.subscriptions, call.today)>>
  /\ UNCHANGED <<store, nextId, now, resp, call>>

RenderExpenseChart ==
  /\ call.fn = "page"
  /\ Len(ret) = 1
  /\ ret' = Append(ret, ExpenseChart(call.subscriptions))
  /\ UNCHANGED <<store, nextId, now, resp, call>>

RenderUpcomingReminders ==
  /\ call.fn = "page"
  /\ Len(ret) = 2
  /\ ret' = Append(ret, UpcomingReminders(call.subscriptions, call.today, call.zone))
  /\ UNCHANGED <<store, nextId, now, resp, call>>

NextDashboard ==
  \/ RenderDashboardStats
  \/ RenderExpenseChart
  \/ RenderUpcomingReminders

SpecDashboard == InitDashboard /\ [][NextDashboard]_vars

----------------------------------------------------------------------------
(* The list request on tables of many rows *)

Hulu ==
  Body(JStr(<<"H", "u", "l", "u">>), JNum(7), JStr(yearly), JStr(jan05),
       JStr(music), JNull, JStr(trial))

Flickr ==
  Body(JStr(<<"F", "l", "i", "c", "k", "r">>), JNum(7), JStr(quarterly),
       JStr(jan05), JNull, JStr(<<"n", "o", "t", " ", "H", "u", "l", "u">>),
       JStr(cancelled))

\* the table after n creations, of Netflix, Hulu and Flickr in turn
TableOf(n) ==
  [i \in 1..n |->
     [id |-> i] @@ InsertData(<<Netflix, Hulu, Flickr>>[((i - 1) % 3) + 1], 0)]

\* a few rows, and more rows than the default and the largest page hold
TableSizes == {0, 1, 2, 3, DefaultLimit + 1, MaxLimit + 1}

LimitInputs ==
  {JNull} \cup
  {JStr(t) : t \in {<<>>, <<"0">>, <<"2">>, <<"-", "1">>, <<"a", "b", "c">>,
                    <<"1", "0", "0">>, <<"1", "0", "1">>, <<"2", "0", "0">>}}

OffsetInputs == {JNull, JStr(<<"1">>), JStr(<<"-", "1">>)}

Builders == {"truthy", "not negative"}

\* pages without filters, filters without pages, and both
ListRequests ==
  {<<Query(l, o, JNull, JNull, JNull, JNull), b, "none">> :
     l \in LimitInputs, o \in OffsetInputs, b \in Builders}
  \cup {<<Query(JNull, JNull, q, st, c, bc), "truthy", "none">> :
          q \in {JNull, JStr(<<"U", "L", "U">>)},
          st \in {JNull, JStr(<<"T", "r", "i", "a", "l", " ">>), JStr(cancelled),
                  JStr(<<"b", "o", "g", "u", "s">>)},
          c \in {JNull, JStr(music)},
          bc \in {JNull, JStr(yearly)}}
  \cup {<<Query(JStr(<<"2">>), JStr(<<"1">>), JStr(<<"l">>), JNull, JNull, JNull),
           "truthy", "none">>,
         <<NoQuery, "truthy", "select">>}

InitList ==
  /\ \E n \in TableSizes : store = TableOf(n) /\ nextId = n + 1
  /\ now = 0
  /\ resp = Response("none", 0, "(none)", <<>>)
  /\ call = NoCall
  /\ ret = <<>>

\* a list request arrives; call keeps the request that resp answers
GETList(query, builder, fault) ==
  LET o == ListOutcome(Db(store, nextId), query, builder, fault)
  IN /\ store' = o.db.rows
     /\ resp' = o.resp
     /\ call' = [fn |-> "list", query |-> query, builder |-> builder]
     /\ UNCHANGED <<nextId, now, ret>>

NextList == \E r \in ListRequests : GETList(r[1], r[2], r[3])

SpecList == InitList /\ [][NextList]_vars

----------------------------------------------------------------------------
(* Two requests for one subscription at the same time: each handler awaits
   its select and then its write, and the other may run in between *)

\* the table after one creation with the status st
OneRow(st) == Insert(Db(<<>>, 1), InsertData([Netflix EXCEPT !.status = JStr(st)], 0)).db

\* a request on its way: pc is "start" before the select, "selected" between
\* the select and the write, "done" after the response; existing is what the
\* select returned
Request(op, id, body) ==
  [op |-> op, id |-> id, body |-> body, pc |-> "start", existing |-> <<>>]

RaceRequests ==
  {Request("PUT", IdQuery(1), [Absent EXCEPT !.status = JStr(t)]) :
     t \in {active, paused, cancelled, trial, expired}}
  \cup {Request("DELETE", IdQuery(1), Absent)}

Pending == Response("none", 0, "(none)", <<>>)

InitRace ==
  /\ \E st \in {active, cancelled, trial, expired} :
       store = OneRow(st).rows /\ nextId = OneRow(st).seq
  /\ now = 0
  /\ resp = Pending
  /\ call \in {[fn |-> "race", reqs |-> <<r1, r2>>] :
                 r1 \in RaceRequests, r2 \in RaceRequests}
  /\ ret = <<Pending, Pending>>

\* the request p answers r and is over
Respond(p, r) ==
  /\ call' = [call EXCEPT !.reqs[p].pc = "done"]
  /\ ret' = [ret EXCEPT ![p] = r]
  /\ resp' = r

\* PUT up to its write: the id check, the select and the checks of the body
PUTSelect(p) ==
  LET r == call.reqs[p]
      existing == SelectById(Db(store, nextId), ParseInt(r.id.s).n)
      steps == PutSteps(r.body, existing[1])
      bad == FirstFailure(steps)
  IN /\ call.fn = "race" /\ r.op = "PUT" /\ r.pc = "start"
     /\ IF IdRejected(r.id) THEN Respond(p, Error("PUT", 400, "INVALID_ID"))
        ELSE IF Len(existing) = 0 THEN Respond(p, Error("PUT", 404, "NOT_FOUND"))
        ELSE IF bad # 0 /\ steps[bad].err = "throw" THEN Respond(p, InternalError("PUT"))
        ELSE IF bad # 0 THEN Respond(p, StepError(steps[bad]))
        ELSE /\ call' = [call EXCEPT !.reqs[p].pc = "selected",
                                      !.reqs[p].existing = existing]
             /\ UNCHANGED <<ret, resp>>
     /\ UNCHANGED <<store, nextId, now>>

\* PUT from its write on.  When the row is gone the update returns no row and
\* the response is made of undefined: noBody names what the runtime does
\* then, an empty 200 or a TypeError that the catch block turns into a 500.
PUTUpdate(p, noBody) ==
  LET r == call.reqs[p]
      upd == Update(Db(store, nextId), ParseInt(r.id.s).n,
                    Updates(PutSteps(r.body, r.existing[1]), now))
  IN /\ call.fn = "race" /\ r.op = "PUT" /\ r.pc = "selected"
     /\ store' = upd.db.rows
     /\ IF upd.returning = <<>> /\ noBody = "throw"
        THEN Respond(p, InternalError("PUT"))
        ELSE Respond(p, Response("PUT", 200, "ok", upd.returning))
     /\ UNCHANGED <<nextId, now>>

\* DELETE up to its write: the id check and the select
DELETESelect(p) ==
  LET r == call.reqs[p]
      existing == SelectById(Db(store, nextId), ParseInt(r.id.s).n)
  IN /\ call.fn = "race" /\ r.op = "DELETE" /\ r.pc = "start"
     /\ IF IdRejected(r.id) THEN Respond(p, Error("DELETE", 400, "INVALID_ID"))
        ELSE IF Len(existing) = 0 THEN Respond(p, Error("DELETE", 404, "NOT_FOUND"))
        ELSE /\ call' = [call EXCEPT !.reqs[p].pc = "selected",
                                      !.reqs[p].existing = existing]
             /\ UNCHANGED <<ret, resp>>
     /\ UNCHANGED <<store, nextId, now>>

\* DELETE from its write on: {message, subscription: deleted[0]}, with no
\* subscription when the delete returned no row
DELETEDelete(p) ==
  LET r == call.reqs[p]
      del == Delete(Db(store, nextId), ParseInt(r.id.s).n)
  IN /\ call.fn = "race" /\ r.op = "DELETE" /\ r.pc = "selected"
     /\ store' = del.db.rows
     /\ Respond(p, Response("DELETE", 200, "ok", del.returning))
     /\ UNCHANGED <<nextId, now>>

NextRace ==
  \/ \E p \in {1, 2} : PUTSelect(p)
  \/ \E p \in {1, 2} : \E noBody \in {"empty", "throw"} : PUTUpdate(p, noBody)
  \/ \E p \in {1, 2} : DELETESelect(p)
  \/ \E p \in {1, 2} : DELETEDelete(p)

SpecRace == InitRace /\ [][NextRace]_vars

----------------------------------------------------------------------------
(* components/SubscriptionDialog.tsx and the page that opens it.  Of the
   subscription being edited only the status is kept; <<>> stands for no
   subscription (the dialog adds a new one). *)

\* a faulty statusOptions: every status is offered for every subscription
statusOptionsUnfiltered(subscription) == SUBSCRIPTION_STATUS_VALUES

\* statusOptions, as the values of the options
statusOptions(subscription) ==
  IF subscription = <<>> THEN SUBSCRIPTION_STATUS_VALUES
  ELSE SelectSeq(SUBSCRIPTION_STATUS_VALUES,
                 LAMBDA value : Includes(getPermittedStatusOptions(subscription), value))

\* createFormState(sub).status
createFormState(subscription) ==
  IF subscription = <<>> THEN active ELSE subscription

\* formData.status once the effects of a render have run; seen is the status
\* the render was made with.  The first effect runs when subscription or open
\* has changed, and loads the form when a subscription is given or the dialog
\* is open; the second, which still sees the status of the render, sets the
\* first option on top of that when the status it sees is not among the
\* options.
AfterEffects(subscription, open, changed, seen) ==
  LET loaded == IF changed /\ (subscription # <<>> \/ open)
                THEN createFormState(subscription) ELSE seen
      options == statusOptions(subscription)
  IN IF options # <<>> /\ ~Includes(options, seen) THEN options[1] ELSE loaded

\* the dialog as rendered
Dialog(open, subscription, status) ==
  [fn |-> "dialog", open |-> open, subscription |-> subscription,
   options |-> statusOptions(subscription), status |-> status]

InitDialog ==
  /\ InitStore
  /\ call = Dialog(FALSE, <<>>, createFormState(<<>>))
  /\ ret = <<>>

\* the page: handleEdit of a subscription whose status is s
handleEdit(s) ==
  /\ call.fn = "dialog"
  /\ ~call.open
  /\ call' = Dialog(TRUE, s, AfterEffects(s, TRUE, TRUE, call.status))
  /\ UNCHANGED <<store, nextId, now, resp, ret>>

\* the page: the button that adds a subscription
handleAdd ==
  /\ call.fn = "dialog"
  /\ ~call.open
  /\ call' = Dialog(TRUE, <<>>, AfterEffects(<<>>, TRUE, TRUE, call.status))
  /\ UNCHANGED <<store, nextId, now, resp, ret>>

\* the page: handleDialogClose(false)
handleDialogClose ==
  /\ call.fn = "dialog"
  /\ call.open
  /\ call' = Dialog(FALSE, <<>>, AfterEffects(<<>>, FALSE, TRUE, call.status))
  /\ UNCHANGED <<store, nextId, now, resp, ret>>

\* the user picks one of the items of the Select
onValueChange(value) ==
  /\ call.fn = "dialog"
  /\ call.open
  /\ Includes(call.options, value)
  /\ call' = Dialog(TRUE, call.subscription,
                     AfterEffects(call.subscription, TRUE, FALSE, value))
  /\ UNCHANGED <<store, nextId, now, resp, ret>>

\* handleSubmit: ret keeps the request that was sent; when the response is
\* ok the dialog closes and the form is cleared
handleSubmit(ok) ==
  /\ call.fn = "dialog"
  /\ call.open
  /\ ret' = <<[method |-> IF call.subscription # <<>> THEN "PUT" ELSE "POST",
               current |-> call.subscription,
               status |-> call.status]>>
  /\ call' = IF ok THEN Dialog(FALSE, <<>>, createFormState(<<>>)) ELSE call
  /\ UNCHANGED <<store, nextId, now, resp>>

NextDialog ==
  \/ \E s \in {active, paused, cancelled, trial, expired} : handleEdit(s)
  \/ handleAdd
  \/ handleDialogClose
  \/ \E value \in {active, paused, cancelled, trial, expired} : onValueChange(value)
  \/ \E ok \in BOOLEAN : handleSubmit(ok)

SpecDialog == InitDialog /\ [][NextDialog]_vars

----------------------------------------------------------------------------
(* Properties of the status lifecycle *)

Statuses == {active, paused, cancelled, trial, expired}

\* the statuses that may follow a status, as the specification lists them
AllowList(s) ==
  CASE s = trial -> {active, cancelled}
    [] s = active -> {paused, cancelled, expired}
    [] s = paused -> {cancelled, expired}
    [] s = cancelled -> {expired}
    [] s = expired -> {cancelled}
    [] OTHER -> {}

Terminal == {cancelled, expired}

\* C1: whenever a step changes the stored status of a subscription from s to
\* t, t is s or t is in the allow-list of s.
C1_StatusChangeInAllowList ==
  [][\A id \in DOMAIN store \cap DOMAIN store' :
       \/ store'[id].status = store[id].status
       \/ store'[id].status \in AllowList(store[id].status)]_vars

\* an update succeeded and left its record paused; no creation asks for
\* paused, so the update changed the status from active
C1_Witness ==
  /\ resp.op = "PUT" /\ resp.status = 200
  /\ resp.rows[1].status = paused
  /\ store[resp.rows[1].id].status = paused

\* C2: a subscription whose status is cancelled or expired keeps a status in
\* {cancelled, expired} at every step for as long as it is stored.
C2_TerminalStaysTerminal ==
  [][\A id \in DOMAIN store \cap DOMAIN store' :
       store[id].status \in Terminal => store'[id].status \in Terminal]_vars

\* an update was refused for its transition while every stored subscription
\* is cancelled or expired: it asked a terminal record to leave the set
C2_Witness ==
  /\ resp.op = "PUT" /\ resp.code = "INVALID_STATUS_TRANSITION"
  /\ store # <<>>
  /\ \A id \in DOMAIN store : store[id].status \in Terminal

\* a status as a request writes it, and the status it stands for
RequestedStatuses ==
  {<<s, s>> : s \in Statuses}
  \cup {<<<<" ">> \o cancelled, cancelled>>,
        <<<<"E", "X", "P", "I", "R", "E", "D">>, expired>>,
        <<<<"P", "a", "u", "s", "e", "d", " ">>, paused>>}

\* the other fields of an update, all valid
ValidOthers ==
  {Absent,
   [Absent EXCEPT !.name = JStr(<<"N">>), !.cost = JNum(9)],
   [Absent EXCEPT !.category = JNull, !.billingCycle = JStr(yearly)]}

\* C3: an update of a stored subscription of status s that asks for a valid
\* status t, its other fields valid, is refused with
\* INVALID_STATUS_TRANSITION and writes nothing exactly when t is neither s nor
\* in the allow-list of s, and otherwise succeeds and stores t.
C3_TransitionDecidesUpdate ==
  \A n \in DOMAIN store : \A r \in RequestedStatuses : \A others \in ValidOthers :
    LET db == Db(store, nextId)
        o == PutOutcome(db, IdQuery(n), [others EXCEPT !.status = JStr(r[1])],
                        now, "none")
    IN IF r[2] = store[n].status \/ r[2] \in AllowList(store[n].status)
       THEN /\ o.resp.status = 200
            /\ o.resp.rows[1].status = r[2]
            /\ o.db.rows[n].status = r[2]
       ELSE /\ o.resp.status = 400
            /\ o.resp.code = "INVALID_STATUS_TRANSITION"
            /\ o.db = db

\* an update was refused for its transition and a cancelled subscription is
\* stored, the record of the cases cancelled -> active and cancelled -> expired
C3_Witness ==
  /\ resp.op = "PUT" /\ resp.status = 400
  /\ resp.code = "INVALID_STATUS_TRANSITION"
  /\ \E id \in DOMAIN store : store[id].status = cancelled

\* C4: for every pair of the five statuses, canTransition(current, next)
\* returns true exactly when next is current or next is in the allow-list of
\* current.
C4_CanTransitionIsAllowList ==
  (/\ call.fn = "canTransition"
   /\ ret # <<>>
   /\ call.current \in Statuses
   /\ call.next \in Statuses)
  => (ret[1] <=> (call.next = call.current \/ call.next \in AllowList(call.current)))

\* canTransition(cancelled, active) returned false
C4_Witness ==
  /\ call.fn = "canTransition"
  /\ call.current = cancelled /\ call.next = active
  /\ ret = <<FALSE>>

\* status values that are none of the five, however they are written
OtherStatusValues ==
  {JStr(<<"b", "o", "g", "u", "s">>), JStr(<<>>), JStr(<<" ">>),
   JStr(<<"a", "c", "t", "i", "v">>), JStr(active \o <<"!">>),
   JStr(<<"P", "E", "N", "D", "I", "N", "G">>), JNum(1), JNum(0)}

\* C5: every stored subscription has one of the five statuses, and a create
\* or an update of a stored subscription that supplies any other status value,
\* its other fields valid, is refused with INVALID_STATUS and writes nothing.
C5_StatusAlwaysValid ==
  LET db == Db(store, nextId)
  IN /\ \A id \in DOMAIN store : store[id].status \in Statuses
     /\ \A v \in OtherStatusValues :
          /\ LET o == PostOutcome(db, [Netflix EXCEPT !.status = v], now, "none")
             IN o.resp.status = 400 /\ o.resp.code = "INVALID_STATUS" /\ o.db = db
          /\ \A n \in DOMAIN store : \A others \in ValidOthers :
               LET o == PutOutcome(db, IdQuery(n), [others EXCEPT !.status = v],
                                   now, "none")
               IN o.resp.status = 400 /\ o.resp.code = "INVALID_STATUS" /\ o.db = db

\* a request was refused with INVALID_STATUS while subscriptions are stored
C5_Witness ==
  /\ resp.status = 400 /\ resp.code = "INVALID_STATUS"
  /\ store # <<>>
  /\ \A id \in DOMAIN store : store[id].status \in Statuses

----------------------------------------------------------------------------
(* Properties of validation and of the writes *)

\* costs that are no number or are not above zero
BadCosts ==
  {JNum(0), JNum(0 - 5), JStr(<<"0">>), JStr(<<"-", "5">>),
   JStr(<<"x">>), JStr(<<>>)}

MixedUpdateRequests ==
  StoredIds
  \X {[Absent EXCEPT !.name = JStr(<<"M">>), !.cost = JNum(0)],
      [Absent EXCEPT !.category = JStr(<<"t", "v", "2">>),
                     !.status = JStr(<<"b", "o", "g", "u", "s">>)],
      [Absent EXCEPT !.cost = JNum(9), !.status = JStr(trial)],
      [Absent EXCEPT !.cost = JNum(9), !.description = JNum(3)],
      [Absent EXCEPT !.billingCycle = JStr(yearly),
                     !.nextPaymentDate = JStr(month13)]}
  \X Faults

\* C7: a create, update or delete request that returns an error leaves the
\* table exactly as it was, updatedAt included, whichever of its fields were
\* valid.
C7_ErrorsWriteNothing ==
  LET db == Db(store, nextId)
  IN /\ \A r \in CreateRequests \cup ClockCreateRequests :
          LET o == PostOutcome(db, r[1], now, r[2])
          IN o.resp.status >= 400 => o.db = db
     /\ \A r \in UpdateRequests \cup ClockUpdateRequests \cup MixedUpdateRequests :
          LET o == PutOutcome(db, r[1], r[2], now, r[3])
          IN o.resp.status >= 400 => o.db = db
     /\ \A r \in DeleteRequests :
          LET o == DeleteOutcome(db, r[1], r[2])
          IN o.resp.status >= 400 => o.db = db

\* an update that set a category and a cost of zero was refused for the cost,
\* at a time later than the last write of a subscription that has a category
C7_Witness ==
  /\ resp.op = "PUT" /\ resp.status = 400 /\ resp.code = "INVALID_COST"
  /\ \E id \in DOMAIN store :
       store[id].category # JNull /\ store[id].updatedAt < now

\* C8: a successful update changes, in the one record it names, only the
\* fields present in its input and updatedAt, which becomes the time of the
\* update; id, createdAt and the absent fields keep their values and every
\* other record is unchanged.
C8_UpdateChangesOnlySuppliedFields ==
  \A r \in ClockUpdateRequests \cup UpdateRequests \cup MixedUpdateRequests :
    LET db == Db(store, nextId)
        o == PutOutcome(db, r[1], r[2], now, r[3])
    IN o.resp.status = 200 =>
         LET n == o.resp.rows[1].id
         IN /\ n \in DOMAIN store
            /\ DOMAIN o.db.rows = DOMAIN store
            /\ o.db.seq = nextId
            /\ \A k \in DOMAIN store \ {n} : o.db.rows[k] = store[k]
            /\ o.resp.rows = <<o.db.rows[n]>>
            /\ o.db.rows[n].id = store[n].id
            /\ o.db.rows[n].createdAt = store[n].createdAt
            /\ o.db.rows[n].updatedAt = now
            /\ \A i \in 1..Len(Columns) :
                 r[2][Columns[i]] = JUndef =>
                   o.db.rows[n][Columns[i]] = store[n][Columns[i]]

\* an update succeeded on one of two stored subscriptions, later than the
\* creation of either, and the other still carries its earlier updatedAt
C8_Witness ==
  /\ resp.op = "PUT" /\ resp.status = 200
  /\ Cardinality(DOMAIN store) = 2
  /\ store[resp.rows[1].id] = resp.rows[1]
  /\ resp.rows[1].updatedAt > resp.rows[1].createdAt
  /\ \E k \in DOMAIN store : store[k].updatedAt < resp.rows[1].updatedAt

\* an id that is a well-formed positive integer: digits only, above zero
WellFormedId(id) ==
  /\ id.t = "string"
  /\ AllDigits(id.s)
  /\ DigitsPrefix(id.s, 0) > 0

\* C9: an update fails with INVALID_ID for every id that is not a well-formed
\* positive integer and with NOT_FOUND for a well-formed id that names no
\* stored subscription, and writes nothing in either case.
C9_IdValidatedStrictly ==
  \A id \in IdInputs :
    LET db == Db(store, nextId)
        o == PutOutcome(db, id, [Absent EXCEPT !.status = JStr(cancelled)],
                        now, "none")
    IN /\ ~WellFormedId(id) =>
            o.resp.status = 400 /\ o.resp.code = "INVALID_ID" /\ o.db = db
       /\ (WellFormedId(id) /\ DigitsPrefix(id.s, 0) \notin DOMAIN store) =>
            o.resp.status = 404 /\ o.resp.code = "NOT_FOUND" /\ o.db = db

\* the ids handed out so far
IssuedIds == 1..(nextId - 1)

\* get(id) reports not found and no list holds the id
Gone(db, n) ==
  /\ GetOutcome(db, IdQuery(n), "none").resp.status = 404
  /\ GetOutcome(db, IdQuery(n), "none").resp.code = "NOT_FOUND"
  /\ \A i \in 1..Len(GetOutcome(db, JNull, "none").resp.rows) :
       GetOutcome(db, JNull, "none").resp.rows[i].id # n

\* the outcomes of delete in a state
DeleteRemovesExactlyOne ==
  LET db == Db(store, nextId)
  IN /\ \A n \in DOMAIN store :
          LET o == DeleteOutcome(db, IdQuery(n), "none")
          IN /\ o.resp.status = 200
             /\ o.resp.rows = <<store[n]>>
             /\ DOMAIN o.db.rows = DOMAIN store \ {n}
             /\ \A k \in DOMAIN store \ {n} : o.db.rows[k] = store[k]
             /\ Gone(o.db, n)
     /\ \A n \in (IssuedIds \cup {nextId}) \ DOMAIN store :
          LET o == DeleteOutcome(db, IdQuery(n), "none")
          IN /\ o.resp.status = 404 /\ o.resp.code = "NOT_FOUND"
             /\ o.db = db
             /\ Gone(o.db, n)

\* C10: delete(id) on a stored id removes exactly that record and returns it
\* as it was; an id whose record was deleted is not found by get and is in no
\* list at every later step; delete on an id with no record fails with
\* NOT_FOUND, and get still reports not found.
C10_DeleteIsFinal ==
  /\ []DeleteRemovesExactlyOne
  /\ [][\A n \in IssuedIds \ DOMAIN store :
          n \notin DOMAIN store' /\ Gone(Db(store', nextId'), n)]_vars

\* a delete returned the record it removed, that record is gone and another
\* one is still stored
C10_Witness ==
  /\ resp.op = "DELETE" /\ resp.status = 200
  /\ resp.rows[1].id \in IssuedIds \ DOMAIN store
  /\ store # <<>>

----------------------------------------------------------------------------
(* Properties of creation and of the error responses *)

\* C11: the id of a newly created subscription differs from every id handed
\* out before, the ids of deleted records included, and no step changes the
\* id of a stored record.
C11_IdsNeverReused ==
  /\ [](/\ DOMAIN store \subseteq IssuedIds
        /\ \A id \in DOMAIN store : store[id].id = id)
  /\ [][/\ IssuedIds \subseteq 1..(nextId' - 1)
        /\ \A id \in DOMAIN store' \ DOMAIN store :
             id \notin IssuedIds /\ id \in 1..(nextId' - 1)
        /\ \A id \in DOMAIN store \cap DOMAIN store' :
             store'[id].id = store[id].id]_vars

\* the last request created a subscription while an id handed out earlier
\* names no record any more
C11_Witness ==
  /\ resp.op = "POST" /\ resp.status = 201
  /\ resp.rows[1].id \in DOMAIN store
  /\ \E d \in IssuedIds \ DOMAIN store : d < resp.rows[1].id

\* the readings of the clock
Clock == 0..MaxClock

\* C12: a successful create that supplies no status stores active; one that
\* supplies a valid status stores it in lower case, whichever of the five it
\* is; the stored record has createdAt = updatedAt = the time of the request
\* and an id never handed out before.
C12_CreateStoresStatus ==
  \A t \in Clock :
    \A r \in {<<JUndef, active>>, <<JNull, active>>}
             \cup {<<JStr(q[1]), q[2]>> : q \in RequestedStatuses} :
      LET db == Db(store, nextId)
          o == PostOutcome(db, [Netflix EXCEPT !.status = r[1]], t, "none")
          row == o.resp.rows[1]
      IN /\ o.resp.status = 201
         /\ row.status = r[2]
         /\ row.createdAt = t /\ row.updatedAt = t
         /\ row.id \notin IssuedIds
         /\ DOMAIN o.db.rows = DOMAIN store \cup {row.id}
         /\ o.db.rows[row.id] = row
         /\ \A k \in DOMAIN store : o.db.rows[k] = store[k]

\* the last request created a subscription in trial
C12_Witness ==
  /\ resp.op = "POST" /\ resp.status = 201
  /\ resp.rows[1].status = trial
  /\ resp.rows[1].createdAt = resp.rows[1].updatedAt
  /\ store[resp.rows[1].id] = resp.rows[1]

\* the field checks of create, as the specification lists them
NameChecked(b) == IsStr(b.name) /\ Trim(b.name.s) # <<>>
CostPresent(b) == b.cost.t \notin {"undefined", "null"}
CostChecked(b) == ~ParseFloat(b.cost).nan /\ ParseFloat(b.cost).n > 0
CyclePresent(b) == IsStr(b.billingCycle) /\ Trim(b.billingCycle.s) # <<>>
CycleChecked(b) ==
  IsStr(b.billingCycle) /\ b.billingCycle.s \in {monthly, quarterly, yearly}
DatePresent(b) == IsStr(b.nextPaymentDate) /\ Trim(b.nextPaymentDate.s) # <<>>
DateChecked(b) == IsStr(b.nextPaymentDate) /\ DateIsValid(b.nextPaymentDate.s)
StatusChecked(b) ==
  \/ b.status.t \in {"undefined", "null"}
  \/ IsStr(b.status) /\ ToLowerCase(Trim(b.status.s)) \in Statuses

\* the check an error code names fails for the body
CodeNamesFailure(code, b) ==
  CASE code = "MISSING_NAME" -> ~NameChecked(b)
    [] code = "MISSING_COST" -> ~CostPresent(b)
    [] code = "MISSING_BILLING_CYCLE" -> ~CyclePresent(b)
    [] code = "MISSING_NEXT_PAYMENT_DATE" -> ~DatePresent(b)
    [] code = "INVALID_COST" -> ~CostChecked(b)
    [] code = "INVALID_BILLING_CYCLE" -> ~CycleChecked(b)
    [] code = "INVALID_NEXT_PAYMENT_DATE" -> ~DateChecked(b)
    [] code = "INVALID_STATUS" -> ~StatusChecked(b)
    [] OTHER -> FALSE

\* C13: create persists a record exactly when every field check passes, and
\* otherwise persists nothing and returns a code naming a check that fails.
C13_CreateIffChecksPass ==
  \A b \in CreateBodies \cup {Netflix} :
    LET db == Db(store, nextId)
        o == PostOutcome(db, b, now, "none")
    IN IF /\ NameChecked(b) /\ CostPresent(b) /\ CostChecked(b)
          /\ CyclePresent(b) /\ CycleChecked(b)
          /\ DatePresent(b) /\ DateChecked(b) /\ StatusChecked(b)
       THEN o.resp.status = 201 /\ o.db.rows # store
       ELSE o.db = db /\ CodeNamesFailure(o.resp.code, b)

\* C20: every failing request ends in an error result that carries a code,
\* and a failure of the storage layer is reported with INTERNAL_ERROR.
C20_ErrorsCarryCode ==
  resp.status >= 400 =>
    /\ resp.code # "(none)"
    /\ resp.status = 500 => resp.code = "INTERNAL_ERROR"

----------------------------------------------------------------------------
(* Properties of the dashboard *)

Chargeable(sub) == sub.status \in {active, trial}

Ids(subs) == {subs[i].id : i \in 1..Len(subs)}

\* the subscriptions of the list that satisfy Test, in the order of the list
Only(subs, Test(_)) == SelectSeq(subs, Test)

\* C14: the totals, the category breakdown and the top list all count the
\* chargeable subscriptions, active and trial: the breakdown has the
\* categories of the chargeable subscriptions, the top list (when they are no
\* more than it holds) has exactly the chargeable subscriptions, and for one
\* chargeable subscription the breakdown shows what the monthly total shows.
C14_SameChargeableFilter ==
  (call.fn = "page" /\ Len(ret) >= 2) =>
    LET chargeable == Only(call.subscriptions, Chargeable)
        stats == ret[1]
        chart == ret[2]
    IN /\ DOMAIN chart.categoryData =
            {CategoryOf(chargeable[i]) : i \in 1..Len(chargeable)}
       /\ Len(chargeable) <= TopCount =>
            Ids(chart.sortedSubscriptions) = Ids(chargeable)
       /\ (Len(call.subscriptions) = 1 /\ Len(chargeable) = 1) =>
            chart.categoryData[CategoryOf(chargeable[1])] = stats.monthlyTotal

NotCharged == {paused, cancelled, expired}

Charged(sub) == sub.status \notin NotCharged

\* the list without its element i
Without(subs, i) == SubSeq(subs, 1, i - 1) \o SubSeq(subs, i + 1, Len(subs))

\* the three sums of a list
Sums(subs) ==
  [monthlyTotal |-> calculateMonthlyTotal(subs),
   yearlyTotal |-> calculateYearlyTotal(subs),
   categoryData |-> categoryData(subs)]

\* C15: paused, cancelled and expired subscriptions add nothing to the
\* monthly total, the yearly total and the category breakdown: what the
\* components show is what they show for the list without these
\* subscriptions, and a list in which one subscription has moved to one of
\* the three statuses has the sums of the list without that subscription.
C15_PausedCancelledExpiredNotCounted ==
  (call.fn = "page" /\ Len(ret) >= 2) =>
    LET subs == call.subscriptions
    IN /\ Sums(Only(subs, Charged)) =
            [monthlyTotal |-> ret[1].monthlyTotal,
             yearlyTotal |-> ret[1].yearlyTotal,
             categoryData |-> ret[2].categoryData]
       /\ \A i \in 1..Len(subs) : \A t \in NotCharged :
            Sums([subs EXCEPT ![i].status = t]) = Sums(Without(subs, i))

\* a paused, cancelled or expired subscription was rendered next to one that
\* is counted
C15_Witness ==
  /\ call.fn = "page"
  /\ Len(ret) >= 2
  /\ \E i \in 1..Len(call.subscriptions) : ~Charged(call.subscriptions[i])
  /\ ret[1].monthlyTotal # Zero
  /\ DOMAIN ret[2].categoryData # {}

\* the next number above x > 0
Successor(x) ==
  LET m == AddBits(x.m, <<1>>)
  IN IF Len(m) > Precision THEN Float(SubSeq(m, 1, Precision), x.e + 1)
     ELSE Float(m, x.e)

\* x and y are the same number or neighbours: no number lies between them
Adjacent(x, y) == x = y \/ Successor(x) = y \/ Successor(y) = x

\* the page has rendered the totals of a list of one chargeable subscription:
\* the totals are the contributions of that subscription
OneContribution ==
  /\ call.fn = "page"
  /\ Len(ret) >= 1
  /\ Len(call.subscriptions) = 1
  /\ Chargeable(call.subscriptions[1])

\* C16 as stated: the yearly contribution of a subscription is 12 times its
\* monthly contribution, for every cost and cycle.
C16_YearlyIsTwelveTimesMonthly ==
  OneContribution => ret[1].yearlyTotal = Multiply(ret[1].monthlyTotal, 12)

\* C16: the monthly contribution is cost, cost / 3 or cost / 12 and the
\* yearly one cost * 12, cost * 4 or cost, by cycle; the yearly contribution
\* and 12 times the monthly one are the same number or neighbouring numbers,
\* and the same number for a monthly cycle; a yearly 120 is 10 a month and a
\* monthly 15.99 is 191.88 a year.
C16_YearlyIsTwelveTimesMonthlyRounded ==
  OneContribution =>
    LET sub == call.subscriptions[1]
        monthlyTotal == ret[1].monthlyTotal
        yearlyTotal == ret[1].yearlyTotal
    IN /\ sub.billingCycle = monthly =>
            /\ monthlyTotal = sub.cost
            /\ yearlyTotal = Multiply(sub.cost, 12)
            /\ yearlyTotal = Multiply(monthlyTotal, 12)
       /\ sub.billingCycle = quarterly =>
            /\ monthlyTotal = Divide(sub.cost, 3)
            /\ yearlyTotal = Multiply(sub.cost, 4)
       /\ sub.billingCycle = yearly =>
            /\ monthlyTotal = Divide(sub.cost, 12)
            /\ yearlyTotal = sub.cost
       /\ Adjacent(yearlyTotal, Multiply(monthlyTotal, 12))
       /\ (sub.billingCycle = yearly /\ sub.cost = FromRatio(120, 1)) =>
            monthlyTotal = FromRatio(10, 1)
       /\ (sub.billingCycle = monthly /\ sub.cost = FromRatio(1599, 100)) =>
            yearlyTotal = FromRatio(19188, 100)

\* the totals of one yearly subscription of 0.21 were rendered: 12 times the
\* monthly total is the neighbour of the yearly total
C16_Witness ==
  /\ OneContribution
  /\ call.subscriptions[1].billingCycle = yearly
  /\ call.subscriptions[1].cost = FromRatio(21, 100)
  /\ ret[1].yearlyTotal # Multiply(ret[1].monthlyTotal, 12)
  /\ Adjacent(ret[1].yearlyTotal, Multiply(ret[1].monthlyTotal, 12))

\* C17: the top list has at most ten subscriptions, all of them chargeable
\* subscriptions of the list, in non-increasing order of monthly cost, those
\* of equal cost in the order of the list; no chargeable subscription that is
\* left out costs more a month than one that is shown.
C17_TopByMonthlyCost ==
  (call.fn = "page" /\ Len(ret) >= 2) =>
    LET chargeable == Only(call.subscriptions, Chargeable) IN
    LET top == ret[2].sortedSubscriptions
        Cost(sub) == convertToMonthly(sub.cost, sub.billingCycle)
        Range(seq) == {seq[i] : i \in 1..Len(seq)}
    IN /\ Len(top) <= TopCount
       /\ Range(top) \subseteq Range(chargeable)
       /\ \A i \in 1..Len(top) : \A j \in i..Len(top) :
            ~Less(Cost(top[i]), Cost(top[j]))
       /\ \A c \in {Cost(sub) : sub \in Range(top)} :
            LET SameCost(sub) == Cost(sub) = c
                tied == Only(top, SameCost)
            IN tied = SubSeq(Only(chargeable, SameCost), 1, Len(tied))
       /\ \A sub \in Range(chargeable) :
            (\E shown \in Range(top) : Less(Cost(shown), Cost(sub)))
              => sub \in Range(top)

\* the local calendar day of an instant, in the time zone of the rendering
LocalDay(t) == (t + call.zone) \div Day

\* the calendar day a payment date names
PaymentDay(sub) == DateValue(sub.nextPaymentDate) \div Day

\* the payment day of the subscription, counted from today's day
DaysUntil(sub) == PaymentDay(sub) - LocalDay(call.today)

\* ascending by payment date
AscendingByDate(subs) ==
  \A i \in 1..Len(subs) : \A j \in i..Len(subs) :
    PaymentDay(subs[i]) <= PaymentDay(subs[j])

\* C18: the overdue payments are exactly the active subscriptions whose
\* payment day is before today's day, the upcoming payments exactly the active
\* ones due in 0 to 30 days, both ascending by payment date and disjoint; a
\* subscription due today is upcoming and not overdue; the due-soon mark is on
\* exactly the upcoming payments due within 7 days.
C18_OverdueAndDueSoon ==
  (call.fn = "page" /\ Len(ret) >= 3) =>
    LET IsActive(sub) == sub.status = active
        Overdue(sub) == IsActive(sub) /\ DaysUntil(sub) < 0
        Upcoming(sub) == IsActive(sub) /\ DaysUntil(sub) >= 0 /\ DaysUntil(sub) <= 30
        Urgent(sub) == Upcoming(sub) /\ DaysUntil(sub) <= 7
        Range(seq) == {seq[i] : i \in 1..Len(seq)}
        subs == call.subscriptions
        shown == ret[3]
    IN /\ Range(shown.overduePayments) = Range(Only(subs, Overdue))
       /\ Len(shown.overduePayments) = Len(Only(subs, Overdue))
       /\ Range(shown.upcomingPayments) = Range(Only(subs, Upcoming))
       /\ Len(shown.upcomingPayments) = Len(Only(subs, Upcoming))
       /\ AscendingByDate(shown.overduePayments)
       /\ AscendingByDate(shown.upcomingPayments)
       /\ Range(shown.overduePayments) \cap Range(shown.upcomingPayments) = {}
       /\ Range(shown.dueSoon) = Range(Only(subs, Urgent))

\* C19: the payments due this week are counted as the chargeable
\* subscriptions whose payment day is today or one of the 7 days after it,
\* whatever the time of day of the rendering.
C19_DueThisWeek ==
  (call.fn = "page" /\ Len(ret) >= 1) =>
    LET DueThisWeek(sub) ==
          Chargeable(sub) /\ DaysUntil(sub) >= 0 /\ DaysUntil(sub) <= 7
    IN ret[1].upcomingPayments = Len(Only(call.subscriptions, DueThisWeek))

----------------------------------------------------------------------------
(* Properties of the list, the status policy and the edit dialog *)

\* seq begins with prefix
StartsWith(seq, prefix) ==
  Len(prefix) <= Len(seq) /\ SubSeq(seq, 1, Len(prefix)) = prefix

\* the row passes every filter the request supplies
Filtered(row, query) ==
  /\ IsStr(query.status) /\ query.status.s # <<>> =>
       row.status = ToLowerCase(Trim(query.status.s))
  /\ IsStr(query.category) /\ query.category.s # <<>> =>
       row.category = query.category
  /\ IsStr(query.billingCycle) /\ query.billingCycle.s # <<>> =>
       row.billingCycle = query.billingCycle.s
  /\ IsStr(query.search) /\ query.search.s # <<>> =>
       \/ Like(row.name, query.search.s)
       \/ IsStr(row.description) /\ Like(row.description.s, query.search.s)

\* C21: a list never returns more than 100 records whatever the limit asked
\* for, at most 50 when no limit is given, skips no record when no offset is
\* given, and returns only records that pass all the supplied filters.
C21_ListIsCappedAndFiltered ==
  (call.fn = "list" /\ resp.status = 200) =>
    LET query == call.query
        passing == SelectSeq(RowsFrom(Db(store, nextId), 1),
                             LAMBDA row : Filtered(row, query))
    IN /\ Len(resp.rows) <= MaxLimit
       /\ query.limit = JNull => Len(resp.rows) <= DefaultLimit
       /\ query.offset = JNull => StartsWith(passing, resp.rows)
       /\ \A i \in 1..Len(resp.rows) : Filtered(resp.rows[i], query)

\* the elements of a sequence
Elements(seq) == {seq[i] : i \in 1..Len(seq)}

\* C22: for every status s the permitted next options are s and the
\* allow-list of s, so t is among them exactly when canTransition(s, t); with
\* no current status they are all five statuses.
C22_PermittedIsCurrentAndAllowList ==
  (call.fn = "getPermitted" /\ ret # <<>>) =>
    /\ call.current \in Statuses =>
         /\ Elements(ret[1]) = {call.current} \cup AllowList(call.current)
         /\ \A t \in Statuses :
              t \in Elements(ret[1]) <=>
                canTransitionSubscriptionStatus(call.current, t)
    /\ call.current = <<>> => Elements(ret[1]) = Statuses

\* the options of paused were asked for: paused, cancelled, expired
C22_Witness ==
  /\ call.fn = "getPermitted"
  /\ call.current = paused
  /\ ret = <<(<<paused, cancelled, expired>>)>>

\* C23: isValidStatus is true exactly for the texts whose lower-case form is
\* one of the five statuses: Active and ACTIVE are valid.
C23_IsValidIgnoresCase ==
  (call.fn = "isValid" /\ ret # <<>>) =>
    (ret[1] <=> ToLowerCase(call.value) \in Statuses)

\* C24: canTransition is false whenever current or next is not one of the
\* five statuses, and the options of an unknown status hold no other status.
C24_UnknownStatusNeverTransitions ==
  /\ (call.fn = "canTransition" /\ ret # <<>>
      /\ (call.current \notin Statuses \/ call.next \notin Statuses))
       => ret[1] = FALSE
  /\ (call.fn = "getPermitted" /\ ret # <<>>
      /\ call.current \notin Statuses /\ call.current # <<>>)
       => Elements(ret[1]) \subseteq {call.current}

\* C25: a refusal with INVALID_STATUS_TRANSITION for a record whose stored
\* status is s lists the labels of exactly the statuses t # s with
\* canTransition(s, t); the list is never empty and never holds the status
\* that was refused.
C25_RejectionListsPermitted ==
  \A id \in DOMAIN store : \A t \in Statuses :
    LET s == store[id].status
        o == PutOutcome(Db(store, nextId), IdQuery(id),
                        [Absent EXCEPT !.status = JStr(t)], now, "none")
    IN o.resp.code = "INVALID_STATUS_TRANSITION" =>
         /\ Elements(o.resp.allowed) =
              {SUBSCRIPTION_STATUS_LABELS(u) :
                 u \in {v \in Statuses \ {s} : canTransitionSubscriptionStatus(s, v)}}
         /\ Len(o.resp.allowed) = Cardinality(Elements(o.resp.allowed))
         /\ o.resp.allowed # <<>>
         /\ SUBSCRIPTION_STATUS_LABELS(t) \notin Elements(o.resp.allowed)
         /\ ~canTransitionSubscriptionStatus(s, t)

\* a paused subscription was asked to become active: the refusal lists
\* Cancelled and Expired
C25_Witness ==
  /\ resp.op = "PUT"
  /\ resp.code = "INVALID_STATUS_TRANSITION"
  /\ resp.allowed = <<"Cancelled", "Expired">>
  /\ \E id \in DOMAIN store : store[id].status = paused

----------------------------------------------------------------------------
(* Properties of requests that run at the same time *)

\* C26: while two updates of one subscription are interleaved, every write
\* changes the stored status of the subscription, if at all, to a status its
\* allow-list permits.
C26_RacingUpdatesFollowGraph ==
  [][call.fn = "race" =>
       \A id \in DOMAIN store \cap DOMAIN store' :
         LET s == store[id].status
             t == store'[id].status
         IN t = s \/ t \in AllowList(s)]_vars

\* the request p has answered with success
Succeeded(p) == call.reqs[p].pc = "done" /\ ret[p].status = 200

\* C27: when a delete is interleaved with a delete or an update of the same
\* subscription, a request that answers with success carries the record its
\* write affected, and of two deletes exactly one succeeds while the other
\* answers NOT_FOUND.
C27_RacingDeleteSucceedsOnce ==
  (call.fn = "race" /\ \E p \in {1, 2} : call.reqs[p].op = "DELETE") =>
    /\ \A p \in {1, 2} : Succeeded(p) => Len(ret[p].rows) = 1
    /\ (/\ call.reqs[1].op = "DELETE" /\ call.reqs[2].op = "DELETE"
        /\ call.reqs[1].pc = "done" /\ call.reqs[2].pc = "done") =>
         \E p \in {1, 2} :
           /\ Succeeded(p)
           /\ ret[3 - p].code = "NOT_FOUND"

----------------------------------------------------------------------------
(* Properties that join the lifecycle and the dashboard *)

\* C28: a subscription whose stored status is outside active and trial adds
\* nothing to the monthly and the yearly total, and no update brings it back
\* to active or trial: a paused subscription is never resumed; nor does an
\* active subscription ever become a trial.
C28_NeverChargeableAgain ==
  /\ [](\A id \in DOMAIN store :
          store[id].status \notin {active, trial} =>
            /\ calculateMonthlyTotal(<<PageSubscription(store[id])>>) = Zero
            /\ calculateYearlyTotal(<<PageSubscription(store[id])>>) = Zero)
  /\ [][\A id \in DOMAIN store \cap DOMAIN store' :
          /\ store[id].status \notin {active, trial} =>
               store'[id].status \notin {active, trial}
          /\ store[id].status = active => store'[id].status # trial]_vars

\* an update was accepted that left its subscription outside active and
\* trial, with a paused subscription in the table
C28_Witness ==
  /\ resp.op = "PUT"
  /\ resp.status = 200
  /\ resp.rows[1].status \in NotCharged
  /\ \E id \in DOMAIN store : store[id].status = paused
  /\ \E id \in DOMAIN store :
       /\ store[id].status = active
       /\ calculateMonthlyTotal(<<PageSubscription(store[id])>>) # Zero

\* the sum of the values of a breakdown
RECURSIVE SumOfValues(_, _)
SumOfValues(data, keys) ==
  IF keys = {} THEN Zero
  ELSE LET key == CHOOSE k \in keys : TRUE
       IN Plus(SumOfValues(data, keys \ {key}), data[key])

\* C29: the values of the category breakdown add up to the monthly total,
\* and a subscription without category is counted under "other".
C29_BreakdownSumsToMonthlyTotal ==
  (call.fn = "page" /\ Len(ret) >= 2) =>
    LET data == ret[2].categoryData
    IN /\ SumOfValues(data, DOMAIN data) = ret[1].monthlyTotal
       /\ \A i \in 1..Len(call.subscriptions) :
            LET sub == call.subscriptions[i]
            IN (sub.status = active /\ sub.category \in {JNull, JStr(<<>>)}) =>
                 /\ other \in DOMAIN data
                 /\ ~Less(data[other], convertToMonthly(sub.cost, sub.billingCycle))

----------------------------------------------------------------------------
(* Properties of the edit dialog *)

\* C30: the dialog of a subscription with status s offers exactly the
\* statuses t with canTransition(s, t), the status selected in the form is
\* one of them, and the status a submitted edit carries is a permitted
\* transition from s; the dialog of a new subscription offers all five.
C30_DialogOffersPermitted ==
  /\ (call.fn = "dialog" /\ call.open /\ call.subscription # <<>>) =>
       /\ Elements(call.options) =
            {t \in Statuses : canTransitionSubscriptionStatus(call.subscription, t)}
       /\ call.status \in Elements(call.options)
  /\ (call.fn = "dialog" /\ call.open /\ call.subscription = <<>>) =>
       Elements(call.options) = Statuses
  /\ (call.fn = "dialog" /\ ret # <<>> /\ ret[1].method = "PUT") =>
       canTransitionSubscriptionStatus(ret[1].current, ret[1].status)

\* the dialog was opened for a trial subscription while the form still held
\* expired: the form was reset to an offered status; and an edit was
\* submitted that changes the status
C30_Witness ==
  /\ call.fn = "dialog"
  /\ call.open
  /\ call.subscription = trial
  /\ call.status = active
  /\ ret # <<>>
  /\ ret[1].method = "PUT"
  /\ ret[1].current = active
  /\ ret[1].status = expired

====
